---------------------------- MODULE Spec2Model ----------------------------
(***************************************************************************)
(* A model of the 2D frame analysis program: the direct-stiffness solver   *)
(* (src/utils/solver.ts), the connectivity repair (autoConnectNodes,       *)
(* src/utils/geometryGenerator.ts) and the application that edits the      *)
(* parameters and calls the solver (App, GeometryEditor).                  *)
(*                                                                         *)
(* Numbers.  The program computes in IEEE doubles.  The model computes in  *)
(* exact rationals [n |-> numerator, d |-> denominator] in lowest terms    *)
(* with d > 0, extended with the three non-finite doubles, written with    *)
(* d = 0:  NaN = 0/0,  +Infinity = 1/0,  -Infinity = -1/0.  Every          *)
(* arithmetic operator below follows the IEEE rules for the non-finite     *)
(* values (0 * NaN = NaN, x / 0 = +-Infinity, 0 / 0 = NaN, a comparison    *)
(* with NaN is false).  Rounding error of finite doubles is modelled only    *)
(* where the program depends on it (the shape functions, Sqrt); a value    *)
(* that lies exactly on a threshold of cleanValue may fall on the other    *)
(* side of it in the program.                                              *)
(***************************************************************************)
EXTENDS Integers, Sequences, FiniteSets, TLC

VARIABLES
    nodes,          \* SolverParams.nodes     : sequence of Node
    elements,       \* SolverParams.elements  : sequence of Element
    loads,          \* SolverParams.loads     : sequence of Load
    stiffnessType,  \* SolverParams.stiffnessType
    structureType,  \* SolverParams.structureType
    numSpans,       \* SolverParams.numSpans
    hooks,          \* App: where the render cycle stands, and which hooks have changed dependencies
    op,             \* the operation that produced this state
    solved,         \* what the last solveStructure call computed (or NoSolve)
    repairIn,       \* the arguments of the last autoConnectNodes call (or NoRepair)
    origin,         \* for each element of the last autoConnectNodes output, its input element
    linear,         \* the arguments and the run of the last solveLinearSystem call (or NoLinear)
    cleaned,        \* the argument and the result of the last cleanValue call (or NoClean)
    plotted         \* the arguments and the stations of the last station plot (or NoPlot)

vars == <<nodes, elements, loads, stiffnessType, structureType, numSpans, hooks,
          op, solved, repairIn, origin, linear, cleaned, plotted>>

-----------------------------------------------------------------------------
(* Extended rational arithmetic                                            *)

\* e, with v evaluated first.  An operator's arguments are evaluated only
\* when they are used; a loop's accumulator is passed through Strict so that a
\* long loop is evaluated step by step, as the program does, and not as one
\* nested expression.
Strict(v, e) == IF v = v THEN e ELSE e

AbsI(i) == IF i < 0 THEN -i ELSE i

SgnI(i) == IF i < 0 THEN -1 ELSE IF i > 0 THEN 1 ELSE 0

RECURSIVE Gcd(_, _)
Gcd(a, b) == IF b = 0 THEN a ELSE Gcd(b, a % b)

\* n/d in lowest terms, for d # 0
Q(n, d) ==
    LET g == Gcd(AbsI(n), AbsI(d))
        sg == IF d < 0 THEN -1 ELSE 1
    IN  [n |-> sg * (n \div g), d |-> sg * (d \div g)]

R(i) == [n |-> i, d |-> 1]

NaN == [n |-> 0, d |-> 0]

Inf(sign) == [n |-> sign, d |-> 0]

Zero == R(0)

One == R(1)

IsNaN(a) == a.d = 0 /\ a.n = 0

IsFinite(a) == a.d # 0

Neg(a) == [n |-> -a.n, d |-> a.d]

Abs(a) == [n |-> AbsI(a.n), d |-> a.d]

Add(a, b) ==
    IF IsFinite(a) /\ IsFinite(b)
    THEN LET g == Gcd(a.d, b.d)
         IN  Q(a.n * (b.d \div g) + b.n * (a.d \div g), (a.d \div g) * b.d)
    ELSE IF IsNaN(a) \/ IsNaN(b) THEN NaN
    ELSE IF IsFinite(a) THEN b
    ELSE IF IsFinite(b) THEN a
    ELSE IF a.n = b.n THEN a ELSE NaN

Sub(a, b) == Add(a, Neg(b))

Mul(a, b) ==
    IF IsFinite(a) /\ IsFinite(b)
    THEN LET g1 == Gcd(AbsI(a.n), b.d)
             g2 == Gcd(AbsI(b.n), a.d)
         IN  [n |-> (a.n \div g1) * (b.n \div g2),
              d |-> (a.d \div g2) * (b.d \div g1)]
    ELSE IF IsNaN(a) \/ IsNaN(b) THEN NaN
    ELSE IF a.n = 0 \/ b.n = 0 THEN NaN
    ELSE Inf(SgnI(a.n) * SgnI(b.n))

Div(a, b) ==
    IF IsNaN(a) \/ IsNaN(b) THEN NaN
    ELSE IF IsFinite(a) /\ IsFinite(b)
    THEN IF b.n = 0
         THEN (IF a.n = 0 THEN NaN ELSE Inf(SgnI(a.n)))
         ELSE Mul(a, Q(b.d, b.n))
    ELSE IF IsFinite(a) THEN Zero
    ELSE IF IsFinite(b) THEN Inf(a.n * (IF b.n < 0 THEN -1 ELSE 1))
    ELSE NaN

\* a < b as doubles compare: false when either side is NaN
Lt(a, b) ==
    IF IsNaN(a) \/ IsNaN(b) THEN FALSE
    ELSE IF IsFinite(a) /\ IsFinite(b)
    THEN LET g == Gcd(a.d, b.d)
         IN  a.n * (b.d \div g) < b.n * (a.d \div g)
    ELSE IF IsFinite(a) THEN b.n > 0
    ELSE IF IsFinite(b) THEN a.n < 0
    ELSE a.n < b.n

Gt(a, b) == Lt(b, a)

Le(a, b) == ~IsNaN(a) /\ ~IsNaN(b) /\ ~Lt(b, a)

Ge(a, b) == Le(b, a)

\* Math.max / Math.min: NaN when either argument is NaN
MaxR(a, b) == IF IsNaN(a) \/ IsNaN(b) THEN NaN ELSE IF Lt(a, b) THEN b ELSE a

MinR(a, b) == IF IsNaN(a) \/ IsNaN(b) THEN NaN ELSE IF Lt(b, a) THEN b ELSE a

RECURSIVE ISqrtFrom(_, _, _)
ISqrtFrom(lo, hi, m) ==
    IF hi - lo <= 1 THEN lo
    ELSE LET mid == (lo + hi) \div 2
         IN  IF mid * mid <= m THEN ISqrtFrom(mid, hi, m) ELSE ISqrtFrom(lo, mid, m)

\* Math.sqrt: exact whenever the root is rational; otherwise the root
\* truncated to the grid of the operand's denominator
Sqrt(a) ==
    LET \* the integer square root of m >= 0
        ISqrt(m) == IF m < 2 THEN m ELSE ISqrtFrom(1, IF m < 46340 THEN m ELSE 46340, m)
    IN  IF IsNaN(a) THEN NaN
        ELSE IF ~IsFinite(a) THEN (IF a.n > 0 THEN a ELSE NaN)
        ELSE IF a.n < 0 THEN NaN
        ELSE LET rn == ISqrt(a.n)
                 rd == ISqrt(a.d)
             IN  IF rn * rn = a.n /\ rd * rd = a.d
                 THEN [n |-> rn, d |-> rd]
                 ELSE Q(ISqrt(a.n * a.d), a.d)

-----------------------------------------------------------------------------
(* src/utils/solver.ts: cleanValue and the linear solver                   *)

RECURSIVE LtTenTo(_, _)
\* a < 10^(-e), without forming 10^e (1e-10 does not fit the model's integers)
LtTenTo(a, e) ==
    IF IsNaN(a) THEN FALSE
    ELSE IF ~IsFinite(a) THEN a.n < 0
    ELSE IF a.n <= 0 THEN TRUE
    ELSE IF e = 0 THEN Lt(a, One)
    ELSE IF Ge(a, One) THEN FALSE
    ELSE LtTenTo(Mul(a, R(10)), e - 1)

RECURSIVE FracDigits(_, _, _, _)
\* <<the first k decimal digits of r/d as an integer, the remainder>>
FracDigits(acc, r, d, k) ==
    IF k = 0 THEN <<acc, r>>
    ELSE FracDigits(acc * 10 + ((r * 10) \div d), (r * 10) % d, d, k - 1)

cleanValue(val) ==
    LET SnapTol == Q(2, 100)
        \* parseFloat(val.toFixed(4)) for a finite val: 4 decimals, ties away from zero
        ToFixed4(a) ==
            LET an == AbsI(a.n)
                fd == FracDigits(0, an % a.d, a.d, 4)
                m  == (an \div a.d) * 10000 + fd[1] + (IF 2 * fd[2] >= a.d THEN 1 ELSE 0)
            IN  Q(SgnI(a.n) * m, 10000)
        \* Math.round: the nearest integer, halves towards +Infinity; non-finite values unchanged
        Round(a) ==
            LET \* floor of a finite rational
                FloorR(a0) == a0.n \div a0.d
            IN  IF IsFinite(a) THEN R(FloorR(Add(a, Q(1, 2)))) ELSE a
    IN  LET \* the cleaned val, given rounded = Math.round(val) and
            \* roundedTwice = Math.round(val * 2)
            Snap(rounded, roundedTwice) ==
                IF LtTenTo(Abs(val), 4) THEN Zero
                ELSE IF Lt(Abs(Sub(val, rounded)), SnapTol) THEN rounded
                ELSE IF Lt(Abs(Sub(Mul(val, R(2)), roundedTwice)), SnapTol)
                     THEN Div(roundedTwice, R(2))
                ELSE IF IsFinite(val) THEN ToFixed4(val)
                ELSE val
        IN  Snap(Round(val), Round(Mul(val, R(2))))

createVector(size) == [i \in 0..(size - 1) |-> Zero]

createMatrix(rows, cols) == [i \in 0..(rows - 1) |-> [j \in 0..(cols - 1) |-> Zero]]

RECURSIVE DotFrom(_, _, _, _, _)
\* acc + row[j]*v[j] + ... + row[hi]*v[hi], added in ascending order
DotFrom(row, v, j, hi, acc) ==
    IF j > hi THEN acc
    ELSE LET next == Add(acc, Mul(row[j], v[j]))
         IN  Strict(next, DotFrom(row, v, j + 1, hi, next))

multiplyMatrixVector(M, v) ==
    LET n == Cardinality(DOMAIN v)
    IN  [i \in DOMAIN M |-> DotFrom(M[i], v, 0, n - 1, Zero)]

RECURSIVE PivotRow(_, _, _, _, _)
\* the row the pivot search of column i ends on, scanning k = i+1 .. n-1
PivotRow(M, i, k, n, maxRow) ==
    IF k >= n THEN maxRow
    ELSE PivotRow(M, i, k + 1, n,
                  IF Gt(Abs(M[k][i]), Abs(M[maxRow][i])) THEN k ELSE maxRow)

PivotIsZero(p) == LtTenTo(Abs(p), 10)

\* M after the pivot search of column i and the swap
Pivoted(M, i, n) ==
    LET SwapRows(r) ==
            [k \in DOMAIN M |-> IF k = i THEN M[r] ELSE IF k = r THEN M[i] ELSE M[k]]
    IN  SwapRows(PivotRow(M, i, i + 1, n, i))

\* one iteration of the elimination loop on the pivoted P
ForwardStep(P, i, n) ==
    LET \* the stability check: the pivot row becomes the equation x_i = 0
        Stabilise(M) ==
            [M EXCEPT ![i] = [j \in 0..n |-> IF j = i THEN One
                                            ELSE IF j > i THEN Zero
                                            ELSE M[i][j]]]
        Eliminate(M) ==
            [k \in 0..(n - 1) |->
                IF k <= i THEN M[k]
                ELSE LET c == Div(Neg(M[k][i]), M[i][i])
                     IN  [j \in 0..n |-> IF j < i THEN M[k][j]
                                         ELSE IF j = i THEN Zero
                                         ELSE Add(M[k][j], Mul(c, M[i][j]))]]
    IN  IF PivotIsZero(P[i][i]) THEN Stabilise(P) ELSE Eliminate(P)

RECURSIVE Forward(_, _, _)
Forward(M, i, n) ==
    IF i >= n THEN M
    ELSE LET next == ForwardStep(Pivoted(M, i, n), i, n)
         IN  Strict(next, Forward(next, i + 1, n))

RECURSIVE BackSubstitute(_, _, _, _)
BackSubstitute(M, x, i, n) ==
    IF i < 0 THEN x
    ELSE LET sum == DotFrom(M[i], x, i + 1, n - 1, Zero)
             next == [x EXCEPT ![i] = Div(Sub(M[i][n], sum), M[i][i])]
         IN  Strict(next, BackSubstitute(M, next, i - 1, n))

\* M = A.map((row, i) => [...row, b[i]])
Augmented(A, b, n) ==
    [i \in 0..(n - 1) |-> [j \in 0..n |-> IF j < n THEN A[i][j] ELSE b[i]]]

solveLinearSystem(A, b) ==
    LET n == Cardinality(DOMAIN b)
        M == Augmented(A, b, n)
    IN  Strict(M, BackSubstitute(Forward(M, 0, n), createVector(n), n - 1, n))

-----------------------------------------------------------------------------
(* src/types.ts: the entities.  An optional field is <<>> when undefined   *)
(* and <<v>> when it holds v.                                              *)

Undefined == <<>>

Some(v) == <<v>>

\* JavaScript truthiness of an optional number: undefined and 0 are falsy
Truthy(o) == o # Undefined /\ o[1] # 0

\* Node: [id, x, y, restraints]
MkNode(id, x, y, r) == [id |-> id, x |-> x, y |-> y, restraints |-> r]

\* Element: [id, startNode, endNode, E, A, I, releaseStart, releaseEnd]
MkElement(id, n1, n2, E, A, I, rs, re) ==
    [id |-> id, startNode |-> n1, endNode |-> n2, E |-> E, A |-> A, I |-> I,
     releaseStart |-> rs, releaseEnd |-> re]

\* Load: [id, elementId, nodeId, type, magnitude, direction, location]
MkLoad(id, elementId, nodeId, type, magnitude, direction, location) ==
    [id |-> id, elementId |-> elementId, nodeId |-> nodeId, type |-> type,
     magnitude |-> magnitude, direction |-> direction, location |-> location]

\* l.location !== undefined ? l.location : 0.5
LocationOf(l) == IF l.location # Undefined THEN l.location[1] ELSE Q(1, 2)

\* l.direction || 'y'
DirectionOf(l) == IF l.direction # Undefined THEN l.direction[1] ELSE "y"

-----------------------------------------------------------------------------
(* src/utils/solver.ts: solveStructure, stiffness assembly                 *)

\* nodeIndexMap.get(id): Map.set keeps the last array index of an id; -1 models undefined
nodeIndexMap(ns, id) ==
    LET hits == {i \in 1..Len(ns) : ns[i].id = id}
    IN  IF hits = {} THEN -1 ELSE (CHOOSE i \in hits : \A j \in hits : j <= i) - 1

getDofIndex(ns, nodeId) ==
    LET idx == nodeIndexMap(ns, nodeId)
    IN  IF idx # -1 THEN idx * 3 ELSE -1

\* nodes.find(n => n.id === id): the first node of that id; <<>> models undefined
FindNode(ns, id) ==
    LET hits == {i \in 1..Len(ns) : ns[i].id = id}
    IN  IF hits = {} THEN Undefined ELSE Some(ns[CHOOSE i \in hits : \A j \in hits : i <= j])

\* elements.find(e => e.id === id)
FindElement(es, id) ==
    LET hits == {i \in 1..Len(es) : es[i].id = id}
    IN  IF hits = {} THEN Undefined ELSE Some(es[CHOOSE i \in hits : \A j \in hits : i <= j])

RIGID_MULTIPLIER == 10000

Geometry(n1, n2) ==
    LET \* dx, dy, L, c, s of an element between nodes n1 and n2
        Direction(dx, dy, L) ==
            [dx |-> dx, dy |-> dy, L |-> L, c |-> Div(dx, L), s |-> Div(dy, L)]
        Offsets(dx, dy) == Direction(dx, dy, Sqrt(Add(Mul(dx, dx), Mul(dy, dy))))
    IN  Offsets(Sub(n2.x, n1.x), Sub(n2.y, n1.y))

\* a 6x6 matrix from the set of its non-zero entries <<row, col, value>>
Sparse6(entries) ==
    [r \in 0..5 |-> [q \in 0..5 |->
        IF \E e \in entries : e[1] = r /\ e[2] = q
        THEN (CHOOSE e \in entries : e[1] = r /\ e[2] = q)[3]
        ELSE Zero]]

LocalStiffness(el, L, st) ==
    LET effE ==
            LET e == Mul(el.E, R(1000000))
            IN  IF st = "Rigid" THEN Mul(e, R(RIGID_MULTIPLIER)) ELSE e
        effA ==
            LET a == Mul(el.A, Q(1, 10000))
            IN  IF st = "AxiallyRigid" THEN Mul(a, R(RIGID_MULTIPLIER)) ELSE a
        effI == Mul(el.I, Q(1, 1000000))
    IN  LET \* the axial terms of k_local (lines 218-220)
            AxialTerms(k_axial) ==
                { <<0, 0, k_axial>>, <<0, 3, Neg(k_axial)>>,
                  <<3, 0, Neg(k_axial)>>, <<3, 3, k_axial>> }
            \* the bending terms of a member released at its start (lines 225-230)
            ReleaseStartTerms(k33, k32, k31) ==
                { <<1, 1, k33>>,      <<1, 4, Neg(k33)>>, <<1, 5, k32>>,
                  <<4, 1, Neg(k33)>>, <<4, 4, k33>>,      <<4, 5, Neg(k32)>>,
                  <<5, 1, k32>>,      <<5, 4, Neg(k32)>>, <<5, 5, k31>> }
            \* the bending terms of a member released at its end (lines 231-238)
            ReleaseEndTerms(k33, k32, k31) ==
                { <<1, 1, k33>>,      <<1, 2, k32>>,      <<1, 4, Neg(k33)>>,
                  <<2, 1, k32>>,      <<2, 2, k31>>,      <<2, 4, Neg(k32)>>,
                  <<4, 1, Neg(k33)>>, <<4, 2, Neg(k32)>>, <<4, 4, k33>> }
            \* the bending terms of a member with no release (lines 239-253)
            RigidTerms(kb1, kb2, kb3, kb4) ==
                { <<1, 1, kb1>>,      <<1, 2, kb2>>,      <<1, 4, Neg(kb1)>>, <<1, 5, kb2>>,
                  <<2, 1, kb2>>,      <<2, 2, kb3>>,      <<2, 4, Neg(kb2)>>, <<2, 5, kb4>>,
                  <<4, 1, Neg(kb1)>>, <<4, 2, Neg(kb2)>>, <<4, 4, kb1>>,      <<4, 5, Neg(kb2)>>,
                  <<5, 1, kb2>>,      <<5, 2, kb4>>,      <<5, 4, Neg(kb2)>>, <<5, 5, kb3>> }
            \* the bending terms of the release case of el
            BendingTerms(EI, L2, L3) ==
                IF el.releaseStart /\ el.releaseEnd THEN {}
                ELSE IF el.releaseStart THEN
                    ReleaseStartTerms(Div(Mul(R(3), EI), L3), Div(Mul(R(3), EI), L2),
                                      Div(Mul(R(3), EI), L))
                ELSE IF el.releaseEnd THEN
                    ReleaseEndTerms(Div(Mul(R(3), EI), L3), Div(Mul(R(3), EI), L2),
                                    Div(Mul(R(3), EI), L))
                ELSE
                    RigidTerms(Div(Mul(R(12), EI), L3), Div(Mul(R(6), EI), L2),
                               Div(Mul(R(4), EI), L), Div(Mul(R(2), EI), L))
            \* the local stiffness matrix: axial terms, then the bending terms of the release case
            LocalStiffnessOf(E, A, I, L2) ==
                Sparse6(AxialTerms(Div(Mul(E, A), L))
                        \cup BendingTerms(Mul(E, I), L2, Mul(L2, L)))
        IN  LocalStiffnessOf(effE, effA, effI, Mul(L, L))

\* the transformation matrix T
Transformation(c, s) ==
    Sparse6({ <<0, 0, c>>, <<0, 1, s>>, <<1, 0, Neg(s)>>, <<1, 1, c>>, <<2, 2, One>>,
              <<3, 3, c>>, <<3, 4, s>>, <<4, 3, Neg(s)>>, <<4, 4, c>>, <<5, 5, One>> })

\* f[0] + f[1] + ... + f[5], added in ascending order
Sum6(f) == Add(Add(Add(Add(Add(f[0], f[1]), f[2]), f[3]), f[4]), f[5])

\* a variant that multiplies by T on the left instead of its transpose
GlobalElementStiffnessUntransposed(k_local, T) ==
    LET TripleSum(k, i, j) ==
            Sum6([a \in 0..5 |-> Sum6([b \in 0..5 |-> Mul(Mul(T[i][a], k[a][b]), T[b][j])])])
    IN  [i \in 0..5 |-> [j \in 0..5 |-> TripleSum(k_local, i, j)]]

\* k_global_el = T^T * k_local * T
GlobalElementStiffness(k_local, T) ==
    LET \* val += T[a][i] * k[a][b] * T[b][j] over a = 0..5 (outer) and b = 0..5 (inner)
        TripleSum(k, i, j) ==
            Sum6([a \in 0..5 |-> Sum6([b \in 0..5 |-> Mul(Mul(T[a][i], k[a][b]), T[b][j])])])
    IN  [i \in 0..5 |-> [j \in 0..5 |-> TripleSum(k_local, i, j)]]

DofMap(idx1, idx2) ==
    [i \in 0..5 |-> IF i < 3 THEN idx1 + i ELSE idx2 + (i - 3)]

\* K[map[i]][map[j]] += kg[i][j] for i, j = 0..5: entry (r, q) of K receives
\* every kg[i][j] with map[i] = r and map[j] = q
ScatterAdd(K, kg, map) ==
    [r \in DOMAIN K |-> [q \in DOMAIN K[r] |->
        IF (\E i \in 0..5 : map[i] = r) /\ (\E j \in 0..5 : map[j] = q)
        THEN Add(K[r][q],
                 Sum6([i \in 0..5 |->
                        IF map[i] = r
                        THEN Sum6([j \in 0..5 |-> IF map[j] = q THEN kg[i][j] ELSE Zero])
                        ELSE Zero]))
        ELSE K[r][q]]]

\* one iteration of the assembly loop over the elements
AssembleElement(K, ns, el, st) ==
    LET LengthEps == Q(1, 1000000)
    IN  LET \* the assembly of an element of geometry g whose end nodes exist (lines 196-274)
            AssembleConnected(g, map) ==
                IF Lt(g.L, LengthEps) THEN K
                ELSE ScatterAdd(K, GlobalElementStiffness(LocalStiffness(el, g.L, st),
                                                          Transformation(g.c, g.s)), map)
        IN  LET idx1 == getDofIndex(ns, el.startNode)
                idx2 == getDofIndex(ns, el.endNode)
            IN  IF idx1 = -1 \/ idx2 = -1 THEN K
                ELSE AssembleConnected(Geometry(FindNode(ns, el.startNode)[1],
                                                 FindNode(ns, el.endNode)[1]),
                                        DofMap(idx1, idx2))

RECURSIVE AssembleFrom(_, _, _, _, _)
AssembleFrom(K, ns, es, st, e) ==
    IF e > Len(es) THEN K
    ELSE Strict(K, AssembleFrom(AssembleElement(K, ns, es[e], st), ns, es, st, e + 1))

\* step 1 of solveStructure: K_global
AssembleStiffness(ns, es, st) ==
    AssembleFrom(createMatrix(3 * Len(ns), 3 * Len(ns)), ns, es, st, 1)

-----------------------------------------------------------------------------
(* src/utils/solver.ts: solveStructure, load assembly                      *)

Half == Q(1, 2)

LocalY(load, c, s) ==
    IF DirectionOf(load) = "x" THEN Mul(load.magnitude, Neg(s)) ELSE Mul(load.magnitude, c)

\* the fixed-end actions <<fx1, v1, m1, fx2, v2, m2>> of one element load,
\* before the release adjustments (lines 311-343)
FixedFixedActions(load, L, c, s) ==
    LET \* the local axial and transverse components of a load (lines 313-314)
        LocalX ==
            IF DirectionOf(load) = "x" THEN Mul(load.magnitude, c) ELSE Mul(load.magnitude, s)
    IN  LET \* the fixed-fixed actions from the local components lx, ly and the distances
            \* a, b of the load from the two ends (lines 316-343)
            FixedFixedOf(lx, ly, a, b, L2, L3) ==
                IF load.type = "distributed" THEN
                    [fx1 |-> Div(Mul(Neg(lx), L), R(2)),
                     v1  |-> Div(Mul(Neg(ly), L), R(2)),
                     m1  |-> Div(Mul(Mul(Neg(ly), L), L), R(12)),
                     fx2 |-> Div(Mul(Neg(lx), L), R(2)),
                     v2  |-> Div(Mul(Neg(ly), L), R(2)),
                     m2  |-> Div(Mul(Mul(ly, L), L), R(12))]
                ELSE IF load.type = "point" THEN
                    [fx1 |-> Div(Mul(Neg(lx), b), L),
                     v1  |-> Div(Mul(Mul(Mul(Neg(ly), b), b), Add(Mul(R(3), a), b)), L3),
                     m1  |-> Div(Mul(Mul(Mul(Neg(ly), a), b), b), L2),
                     fx2 |-> Div(Mul(Neg(lx), a), L),
                     v2  |-> Div(Mul(Mul(Mul(Neg(ly), a), a), Add(a, Mul(R(3), b))), L3),
                     m2  |-> Div(Mul(Mul(Mul(ly, a), a), b), L2)]
                ELSE IF load.type = "moment" THEN
                    [fx1 |-> Zero,
                     v1  |-> Div(Mul(Mul(Mul(R(-6), load.magnitude), a), b), L3),
                     m1  |-> Div(Mul(Mul(load.magnitude, b), Sub(Mul(R(2), a), b)), L2),
                     fx2 |-> Zero,
                     v2  |-> Div(Mul(Mul(Mul(R(6), load.magnitude), a), b), L3),
                     m2  |-> Div(Mul(Mul(load.magnitude, a), Sub(Mul(R(2), b), a)), L2)]
                ELSE [fx1 |-> Zero, v1 |-> Zero, m1 |-> Zero,
                      fx2 |-> Zero, v2 |-> Zero, m2 |-> Zero]
            \* the fixed-fixed actions of a load at distance a from the start
            FixedFixedAt(a, L2) ==
                FixedFixedOf(LocalX, LocalY(load, c, s), a, Sub(L, a), L2, Mul(L2, L))
        IN  FixedFixedAt(Mul(LocationOf(load), L), Mul(L, L))

\* if (el.releaseStart) { dm1 = -m1; m1 += dm1; m2 += 0.5*dm1; dV = -1.5*dm1/L; v1 += dV; v2 -= dV }
ReleaseStartAdjust(f, L) ==
    LET \* m1 += dm1; m2 += 0.5*dm1; v1 += dV; v2 -= dV
        ShiftStart(dm1, dV) ==
            [f EXCEPT !.m1 = Add(f.m1, dm1),
                      !.m2 = Add(f.m2, Mul(Half, dm1)),
                      !.v1 = Add(f.v1, dV),
                      !.v2 = Sub(f.v2, dV)]
    IN  ShiftStart(Neg(f.m1), Div(Mul(Q(-3, 2), Neg(f.m1)), L))

\* the end shears of a member released at both ends (lines 355-366)
PinnedPinnedShears(load, L, c, s) ==
    LET \* the end shears of a simply supported member from the transverse
        \* component ly and the distance a of the load (lines 355-366)
        PinnedPinnedOf(ly, a) ==
            IF load.type = "distributed" THEN
                [v1 |-> Div(Mul(Neg(ly), L), R(2)), v2 |-> Div(Mul(Neg(ly), L), R(2))]
            ELSE IF load.type = "point" THEN
                [v1 |-> Div(Mul(Neg(ly), Sub(L, a)), L), v2 |-> Div(Mul(Neg(ly), a), L)]
            ELSE [v1 |-> Div(Neg(load.magnitude), L), v2 |-> Div(load.magnitude, L)]
    IN  PinnedPinnedOf(LocalY(load, c, s), Mul(LocationOf(load), L))

\* if (el.releaseEnd) { ... } (lines 350-369); f is the vector after the releaseStart block
ReleaseEndAdjust(f, load, el, L, c, s) ==
    LET \* m2 += dm2; m1 += 0.5*dm2; v1 += dV1; v2 -= dV1 (lines 351-354)
        ShiftEnd(dm2, dV1) ==
            [f EXCEPT !.m2 = Add(f.m2, dm2),
                      !.m1 = Add(f.m1, Mul(Half, dm2)),
                      !.v1 = Add(f.v1, dV1),
                      !.v2 = Sub(f.v2, dV1)]
        \* fx1 = 0; fx2 = 0; m1 = 0; m2 = 0 around the pinned-pinned shears (line 367)
        ShearsOnly(shears) ==
            [fx1 |-> Zero, v1 |-> shears.v1, m1 |-> Zero,
             fx2 |-> Zero, v2 |-> shears.v2, m2 |-> Zero]
    IN  IF ~el.releaseStart
        THEN ShiftEnd(Neg(f.m2), Div(Mul(Q(-3, 2), Neg(f.m2)), L))
        ELSE ShearsOnly(IF load.type \in {"distributed", "point", "moment"}
                        THEN PinnedPinnedShears(load, L, c, s)
                        ELSE [v1 |-> f.v1, v2 |-> f.v2])

\* fem_local of one load on element el, as the load loop computes it
FixedEndActions(load, el, L, c, s) ==
    LET \* the releaseStart block (lines 346-349) applied to the fixed-fixed actions f0
        AfterReleaseStart(f0) ==
            IF el.releaseStart THEN ReleaseStartAdjust(f0, L) ELSE f0
        \* the releaseEnd block (lines 350-369) applied to its result f1
        AfterReleaseEnd(f1) ==
            IF el.releaseEnd THEN ReleaseEndAdjust(f1, load, el, L, c, s) ELSE f1
    IN  AfterReleaseEnd(AfterReleaseStart(FixedFixedActions(load, L, c, s)))

\* F_global -= T^T * fem_local, the six statements in order
SubtractFem(F, f, map, c, s) ==
    [F EXCEPT ![map[0]] = Sub(@, Sub(Mul(c, f.fx1), Mul(s, f.v1))),
              ![map[1]] = Sub(@, Add(Mul(s, f.fx1), Mul(c, f.v1))),
              ![map[2]] = Sub(@, f.m1),
              ![map[3]] = Sub(@, Sub(Mul(c, f.fx2), Mul(s, f.v2))),
              ![map[4]] = Sub(@, Add(Mul(s, f.fx2), Mul(c, f.v2))),
              ![map[5]] = Sub(@, f.m2)]

\* a load applied to a node (lines 279-291)
ApplyNodeLoad(F, ns, load) ==
    LET idx == getDofIndex(ns, load.nodeId[1])
    IN  IF idx = -1 THEN F
        ELSE IF load.type = "moment" THEN [F EXCEPT ![idx + 2] = Add(@, load.magnitude)]
        ELSE IF DirectionOf(load) = "x" THEN [F EXCEPT ![idx] = Add(@, load.magnitude)]
        ELSE [F EXCEPT ![idx + 1] = Add(@, load.magnitude)]

\* a load applied to an element (lines 293-382): no length check here
ApplyElementLoad(F, ns, es, load) ==
    LET \* the load on an element of geometry g whose end nodes exist (lines 305-381)
        ApplyToConnected(el, g, map) ==
            SubtractFem(F, FixedEndActions(load, el, g.L, g.c, g.s), map, g.c, g.s)
    IN  LET found == FindElement(es, load.elementId[1])
        IN  IF found = Undefined THEN F
            ELSE LET el == found[1]
                     idx1 == getDofIndex(ns, el.startNode)
                     idx2 == getDofIndex(ns, el.endNode)
                 IN  IF idx1 = -1 \/ idx2 = -1 THEN F
                     ELSE ApplyToConnected(el,
                                            Geometry(FindNode(ns, el.startNode)[1],
                                                     FindNode(ns, el.endNode)[1]),
                                            DofMap(idx1, idx2))

\* one iteration of loads.forEach
ApplyLoad(F, ns, es, load) ==
    IF ~Truthy(load.elementId) /\ Truthy(load.nodeId) THEN ApplyNodeLoad(F, ns, load)
    ELSE IF Truthy(load.elementId) THEN ApplyElementLoad(F, ns, es, load)
    ELSE F

RECURSIVE ApplyLoadsFrom(_, _, _, _, _)
ApplyLoadsFrom(F, ns, es, ls, k) ==
    IF k > Len(ls) THEN F
    ELSE Strict(F, ApplyLoadsFrom(ApplyLoad(F, ns, es, ls[k]), ns, es, ls, k + 1))

\* step 2 of solveStructure: F_global
AssembleLoads(ns, es, ls) == ApplyLoadsFrom(createVector(3 * Len(ns)), ns, es, ls, 1)

-----------------------------------------------------------------------------
(* src/utils/solver.ts: solveStructure, boundary conditions and reactions  *)

\* whether DOF k is reached by the restraint loop: some node whose map index
\* is k \div 3 has restraints[k % 3] set
Restrained(ns, k) ==
    \E i \in 1..Len(ns) :
        /\ nodeIndexMap(ns, ns[i].id) = k \div 3
        /\ ns[i].restraints[(k % 3) + 1]

\* a variant that zeroes the rows of the restrained DOFs but not their columns
ReduceStiffnessRowsOnly(K, ns) ==
    [r \in DOMAIN K |-> [q \in DOMAIN K |->
        IF Restrained(ns, r) THEN (IF r = q THEN One ELSE Zero) ELSE K[r][q]]]

\* step 3: rows and columns of restrained DOFs zeroed, diagonal 1
ReduceStiffness(K, ns) ==
    [r \in DOMAIN K |-> [q \in DOMAIN K |->
        IF Restrained(ns, r) \/ Restrained(ns, q)
        THEN (IF r = q THEN One ELSE Zero)
        ELSE K[r][q]]]

ReduceLoads(F, ns) == [r \in DOMAIN F |-> IF Restrained(ns, r) THEN Zero ELSE F[r]]

\* reactions.push(...) for every node with some restraint, in node order
ReactionOf(ns, node, KU, F) ==
    LET idx == nodeIndexMap(ns, node.id) * 3
    IN  [nodeId |-> node.id,
         fx |-> cleanValue(IF node.restraints[1] THEN Sub(KU[idx], F[idx]) ELSE Zero),
         fy |-> cleanValue(IF node.restraints[2] THEN Sub(KU[idx + 1], F[idx + 1]) ELSE Zero),
         m  |-> cleanValue(IF node.restraints[3] THEN Sub(KU[idx + 2], F[idx + 2]) ELSE Zero)]

RECURSIVE ReactionsFromEveryNode(_, _, _, _, _)
\* a variant that pushes a reaction for every node, restrained or not
ReactionsFromEveryNode(ns, KU, F, i, acc) ==
    IF i > Len(ns) THEN acc
    ELSE ReactionsFromEveryNode(ns, KU, F, i + 1, Append(acc, ReactionOf(ns, ns[i], KU, F)))

RECURSIVE ReactionsFrom(_, _, _, _, _)
ReactionsFrom(ns, KU, F, i, acc) ==
    IF i > Len(ns) THEN acc
    ELSE ReactionsFrom(ns, KU, F, i + 1,
            IF \E o \in 1..3 : ns[i].restraints[o]
            THEN Append(acc, ReactionOf(ns, ns[i], KU, F))
            ELSE acc)

Reactions(ns, K, F, U) == ReactionsFrom(ns, multiplyMatrixVector(K, U), F, 1, <<>>)

-----------------------------------------------------------------------------
(* src/utils/solver.ts: calculateExactValues                               *)

\* the running effect of one element load on <<N_x, V_x, M_x>> at x (lines 122-160)
AddLoadEffect(acc, l, x, L, c, s) ==
    LET loc == Mul(LocationOf(l), L)
        isForce == l.type = "distributed" \/ l.type = "point"
        dir == DirectionOf(l)
        magX == IF ~isForce THEN Zero
                ELSE IF dir = "x" THEN Mul(l.magnitude, c) ELSE Mul(l.magnitude, s)
        magY == IF ~isForce THEN Zero
                ELSE IF dir = "x" THEN Mul(l.magnitude, Neg(s)) ELSE Mul(l.magnitude, c)
    IN  IF l.type = "distributed" THEN
            [N |-> Sub(acc.N, Mul(magX, x)),
             V |-> Add(acc.V, Mul(magY, x)),
             M |-> Add(acc.M, Div(Mul(Mul(magY, x), x), R(2)))]
        ELSE IF Gt(x, Add(loc, Q(1, 1000000))) THEN
            (IF l.type = "point" THEN
                [N |-> Sub(acc.N, magX),
                 V |-> Add(acc.V, magY),
                 M |-> Add(acc.M, Mul(magY, Sub(x, loc)))]
             ELSE IF l.type = "moment" THEN [acc EXCEPT !.M = Sub(acc.M, l.magnitude)]
             ELSE acc)
        ELSE acc

RECURSIVE LoadEffectsFrom(_, _, _, _, _, _, _)
LoadEffectsFrom(acc, ls, k, x, L, c, s) ==
    IF k > Len(ls) THEN acc
    ELSE Strict(acc, LoadEffectsFrom(AddLoadEffect(acc, ls[k], x, L, c, s),
                                     ls, k + 1, x, L, c, s))

ClampStation(xInput, L) ==
    LET \* x clamped to [0, L] and snapped to the ends (lines 97-100)
        SnapToEnd(x) == IF LtTenTo(Abs(Sub(x, L)), 4) THEN L ELSE x
        SnapToStart(x) == SnapToEnd(IF LtTenTo(x, 4) THEN Zero ELSE x)
    IN  SnapToStart(MaxR(Zero, MinR(L, xInput)))

\* A double carries about 16 significant digits, a machine integer of the
\* model 9.  The shape-function arithmetic is exact while numerator and
\* denominator of a result stay within 10 * FxScale; a result beyond that is
\* rounded to a multiple of 1/FxScale, as a floating-point result is rounded
\* to a double.  Every other operation of the model is exact.
FxScale == 10000 * 1000

\* x * y <= 10 * FxScale, for x, y >= 0, without forming the product
FitsMul(x, y) == y = 0 \/ x <= (10 * FxScale) \div y

\* the finite a rounded to the 1/FxScale grid
Fx(a) ==
    IF FxScale % a.d = 0 THEN a
    ELSE LET an == AbsI(a.n)
             fd == FracDigits(0, an % a.d, a.d, 7)
             m  == (an \div a.d) * FxScale + fd[1] + (IF 2 * fd[2] >= a.d THEN 1 ELSE 0)
         IN  Q(SgnI(a.n) * m, FxScale)

\* a * b for a, b on the 1/FxScale grid, rounded to that grid
FixMul(a, b) ==
    LET A  == AbsI(a.n) * (FxScale \div a.d)
        B  == AbsI(b.n) * (FxScale \div b.d)
        ah == A \div 10000
        al == A % 10000
        bh == B \div 10000
        bl == B % 10000
        m  == ah * bh * 10 + ((ah * bl) \div 1000) + ((al * bh) \div 1000)
                 + ((al * bl) \div FxScale)
    IN  Q(SgnI(a.n) * SgnI(b.n) * m, FxScale)

\* a * b as the shape functions compute it
FMul(a, b) ==
    LET \* whether the product of the finite a and b stays within 10 * FxScale
        MulFits ==
            LET g1 == Gcd(AbsI(a.n), b.d)
                g2 == Gcd(AbsI(b.n), a.d)
            IN  /\ FitsMul(AbsI(a.n) \div g1, AbsI(b.n) \div g2)
                /\ FitsMul(a.d \div g2, b.d \div g1)
    IN  IF IsFinite(a) /\ IsFinite(b) /\ ~MulFits THEN FixMul(Fx(a), Fx(b))
        ELSE Mul(a, b)

\* a + b as the shape functions compute it
FAdd(a, b) ==
    LET \* whether the sum of the finite a and b stays within 10 * FxScale
        AddFits ==
            LET g == Gcd(a.d, b.d)
            IN  /\ FitsMul(a.d \div g, b.d)
                /\ FitsMul(AbsI(a.n), b.d \div g)
                /\ FitsMul(AbsI(b.n), a.d \div g)
    IN  IF IsFinite(a) /\ IsFinite(b) /\ ~AddFits THEN Add(Fx(a), Fx(b))
        ELSE Add(a, b)

\* def: the deflection at xi = x / L, in m (lines 102-112)
DeflectionAt(xi, L, u_local) ==
    LET \* the Hermitian shape functions at xi, weighted by the end displacements
        Deflection(xi2, xi3) ==
            LET FSub(a, b) == FAdd(a, Neg(b))
            IN  FAdd(FAdd(FAdd(FMul(FAdd(FSub(One, FMul(R(3), xi2)), FMul(R(2), xi3)),  \* N1
                                    u_local[1]),
                               FMul(FMul(L, FAdd(FSub(xi, FMul(R(2), xi2)), xi3)),      \* N2
                                    u_local[2])),
                          FMul(FSub(FMul(R(3), xi2), FMul(R(2), xi3)),                  \* N3
                               u_local[4])),
                     FMul(FMul(L, FAdd(Neg(xi2), xi3)),                                 \* N4
                          u_local[5]))
        Cubed(xi2) == Deflection(xi2, FMul(xi2, xi))
    IN  Cubed(FMul(xi, xi))

\* xi = L > 1e-9 ? x / L : 0 (line 102)
XiOf(x, L) ==
    IF ~IsNaN(L) /\ ~LtTenTo(L, 9) /\ L # Q(1, 1000000000) THEN Div(x, L) ELSE Zero

calculateExactValues(xInput, L, c, s, u_local, startForces, elementLoads) ==
    LET \* the internal forces at x: the start forces, then the loads (lines 117-160)
        InternalForces(x) ==
            LoadEffectsFrom([N |-> Neg(startForces.fx),
                             V |-> startForces.fy,
                             M |-> Add(Neg(startForces.m), Mul(startForces.fy, x))],
                            elementLoads, 1, x, L, c, s)
        \* the returned values from the deflection def and the internal forces end
        \* (lines 162-167)
        ExactValues(def, end) ==
            [deflectionY |-> cleanValue(FMul(def, R(1000))),
             axial |-> cleanValue(end.N),
             shear |-> cleanValue(end.V),
             moment |-> cleanValue(end.M)]
        \* the values at the clamped station x
        ExactValuesAtStation(x) ==
            ExactValues(DeflectionAt(XiOf(x, L), L, u_local), InternalForces(x))
    IN  ExactValuesAtStation(ClampStation(xInput, L))

-----------------------------------------------------------------------------
(* src/utils/solver.ts: solveStructure, post-processing of the elements    *)

numSteps == 100

\* the local stiffness matrix of the element with both ends taken as rigidly
\* connected, whatever its releases
LocalStiffnessUnreleased(el, L, st) ==
    LocalStiffness([el EXCEPT !.releaseStart = FALSE, !.releaseEnd = FALSE], L, st)

\* a variant that rebuilds the local stiffness without the stiffness mode
LocalStiffnessPostElastic(el, L, st) == LocalStiffness(el, L, "Elastic")

LocalStiffnessPost(el, L, st) ==
    LET \* the rows of k_local that carry the axial terms (lines 464-465)
        AxialRow0(k_axial) == <<k_axial, Zero, Zero, Neg(k_axial), Zero, Zero>>
        AxialRow3(k_axial) == <<Neg(k_axial), Zero, Zero, k_axial, Zero, Zero>>
        ZeroRow == <<Zero, Zero, Zero, Zero, Zero, Zero>>
        \* k_local of a member released at both ends (lines 467-468)
        BothReleasedRows(k_axial) ==
            << AxialRow0(k_axial), ZeroRow, ZeroRow, AxialRow3(k_axial), ZeroRow, ZeroRow >>
        \* k_local of a member released at its start (lines 469-474)
        ReleaseStartRows(k_axial, k33, k32, k31) ==
            << AxialRow0(k_axial),
               <<Zero, k33, Zero, Zero, Neg(k33), k32>>,
               ZeroRow,
               AxialRow3(k_axial),
               <<Zero, Neg(k33), Zero, Zero, k33, Neg(k32)>>,
               <<Zero, k32, Zero, Zero, Neg(k32), k31>> >>
        \* k_local of a member released at its end (lines 475-480)
        ReleaseEndRows(k_axial, k33, k32, k31) ==
            << AxialRow0(k_axial),
               <<Zero, k33, k32, Zero, Neg(k33), Zero>>,
               <<Zero, k32, k31, Zero, Neg(k32), Zero>>,
               AxialRow3(k_axial),
               <<Zero, Neg(k33), Neg(k32), Zero, k33, Zero>>,
               ZeroRow >>
        \* k_local of a member with no release (lines 481-489)
        RigidRows(k_axial, kb1, kb2, kb3, kb4) ==
            << AxialRow0(k_axial),
               <<Zero, kb1, kb2, Zero, Neg(kb1), kb2>>,
               <<Zero, kb2, kb3, Zero, Neg(kb2), kb4>>,
               AxialRow3(k_axial),
               <<Zero, Neg(kb1), Neg(kb2), Zero, kb1, Neg(kb2)>>,
               <<Zero, kb2, kb4, Zero, Neg(kb2), kb3>> >>
        \* the rows of k_local for the release case of el
        PostRows(E1, I0, k_axial, LL, LLL) ==
            IF el.releaseStart /\ el.releaseEnd THEN BothReleasedRows(k_axial)
            ELSE IF el.releaseStart THEN
                ReleaseStartRows(k_axial, Div(Mul(Mul(R(3), E1), I0), LLL),
                                 Div(Mul(Mul(R(3), E1), I0), LL), Div(Mul(Mul(R(3), E1), I0), L))
            ELSE IF el.releaseEnd THEN
                ReleaseEndRows(k_axial, Div(Mul(Mul(R(3), E1), I0), LLL),
                               Div(Mul(Mul(R(3), E1), I0), LL), Div(Mul(Mul(R(3), E1), I0), L))
            ELSE
                RigidRows(k_axial, Div(Mul(Mul(R(12), E1), I0), LLL),
                          Div(Mul(Mul(R(6), E1), I0), LL), Div(Mul(Mul(R(4), E1), I0), L),
                          Div(Mul(Mul(R(2), E1), I0), L))
        \* the local stiffness matrix as the post-processing pass rebuilds it (lines 459-489)
        \* the matrix of the six rows
        Matrix6(rows) == [r \in 0..5 |-> [q \in 0..5 |-> rows[r + 1][q + 1]]]
        \* k_local from the effective E1, A1, I0 (lines 463-489)
        LocalStiffnessPostOf(E1, A1, I0, LL) ==
            Matrix6(PostRows(E1, I0, Div(Mul(E1, A1), L), LL, Mul(LL, L)))
        \* E and A as the post-processing pass scales them (lines 459-462)
        PostE ==
            IF st # "AxiallyRigid" /\ st = "Rigid"
            THEN Mul(Mul(el.E, R(1000000)), R(RIGID_MULTIPLIER))
            ELSE Mul(el.E, R(1000000))
        PostA ==
            IF st = "AxiallyRigid"
            THEN Mul(Mul(el.A, Q(1, 10000)), R(RIGID_MULTIPLIER))
            ELSE Mul(el.A, Q(1, 10000))
    IN  LocalStiffnessPostOf(PostE, PostA, Mul(el.I, Q(1, 1000000)), Mul(L, L))

\* <<fx1, v1, m1, fx2, v2, m2>> of one load as the post-processing pass
\* recomputes it (lines 500-545)
FixedEndActionsPost(l, el, L, c, s) ==
    LET \* the fixed-fixed values <<fx1, v1, m1, fx2, v2, m2>> of one load (lines 508-531)
        FixedFixedPost(mag, wx, wy, a, b, LL, LLL) ==
            IF l.type = "distributed" THEN
               << Div(Mul(Neg(wx), L), R(2)), Div(Mul(Neg(wy), L), R(2)),
                  Div(Mul(Mul(Neg(wy), L), L), R(12)),
                  Div(Mul(Neg(wx), L), R(2)), Div(Mul(Neg(wy), L), R(2)),
                  Div(Mul(Mul(wy, L), L), R(12)) >>
            ELSE IF l.type = "point" THEN
               << Div(Mul(Neg(wx), b), L),
                  Div(Mul(Mul(Mul(Neg(wy), b), b), Add(Mul(R(3), a), b)), LLL),
                  Div(Mul(Mul(Mul(Neg(wy), a), b), b), LL),
                  Div(Mul(Neg(wx), a), L),
                  Div(Mul(Mul(Mul(Neg(wy), a), a), Add(a, Mul(R(3), b))), LLL),
                  Div(Mul(Mul(Mul(wy, a), a), b), LL) >>
            ELSE IF l.type = "moment" THEN
               << Zero, Div(Mul(Mul(Mul(R(-6), mag), a), b), LLL),
                  Div(Mul(Mul(mag, b), Sub(Mul(R(2), a), b)), LL),
                  Zero, Div(Mul(Mul(Mul(R(6), mag), a), b), LLL),
                  Div(Mul(Mul(mag, a), Sub(Mul(R(2), b), a)), LL) >>
            ELSE << Zero, Zero, Zero, Zero, Zero, Zero >>
        \* v1 += dV; m1 += dm1; v2 -= dV; m2 += 0.5*dm1
        ShiftStartPost(ff, dm1, dV) ==
            << ff[1], Add(ff[2], dV), Add(ff[3], dm1),
               ff[4], Sub(ff[5], dV), Add(ff[6], Mul(Half, dm1)) >>
        \* after if (el.releaseStart) {...} (lines 533-535)
        ReleaseStartPost(ff) ==
            IF el.releaseStart
            THEN ShiftStartPost(ff, Neg(ff[3]), Div(Mul(Q(-3, 2), Neg(ff[3])), L))
            ELSE ff
        \* v1 += dV1; m1 += 0.5*dm2; v2 -= dV1; m2 += dm2
        ShiftEndPost(rs, dm2, dV1) ==
            << rs[1], Add(rs[2], dV1), Add(rs[3], Mul(Half, dm2)),
               rs[4], Sub(rs[5], dV1), Add(rs[6], dm2) >>
        \* the end shears of the member released at both ends (lines 539-544)
        PinnedPinnedPost(rs, mag, wy, a, b) ==
            << Zero,
               IF l.type = "distributed" THEN Div(Mul(Neg(wy), L), R(2))
               ELSE IF l.type = "point" THEN Div(Mul(Neg(wy), b), L)
               ELSE IF l.type = "moment" THEN Div(Neg(mag), L)
               ELSE rs[2],
               Zero, Zero,
               IF l.type = "distributed" THEN Div(Mul(Neg(wy), L), R(2))
               ELSE IF l.type = "point" THEN Div(Mul(Neg(wy), a), L)
               ELSE IF l.type = "moment" THEN Div(mag, L)
               ELSE rs[5],
               Zero >>
        \* after if (el.releaseEnd) {...} (lines 536-545)
        ReleaseEndPost(rs, mag, wy, a, b) ==
            IF ~el.releaseEnd THEN rs
            ELSE IF ~el.releaseStart
            THEN ShiftEndPost(rs, Neg(rs[6]), Div(Mul(Q(-3, 2), Neg(rs[6])), L))
            ELSE PinnedPinnedPost(rs, mag, wy, a, b)
        \* the actions of a load of local components wx, wy at distances a, b
        FixedEndPostOf(wx, wy, a, b, LL) ==
            ReleaseEndPost(
                 ReleaseStartPost(FixedFixedPost(l.magnitude, wx, wy, a, b, LL, Mul(LL, L))),
                 l.magnitude, wy, a, b)
        \* the actions of a load at distance a from the start
        FixedEndPostAt(dir, a) ==
            FixedEndPostOf(IF dir = "x" THEN Mul(l.magnitude, c) ELSE Mul(l.magnitude, s),
                            IF dir = "x" THEN Mul(l.magnitude, Neg(s))
                            ELSE Mul(l.magnitude, c),
                            a, Sub(L, a), Mul(L, L))
    IN  FixedEndPostAt(IF l.direction # Undefined THEN l.direction[1] ELSE "y",
                        Mul(IF l.location # Undefined THEN l.location[1] ELSE Half, L))

\* loads.filter(l => l.elementId === el.id)
LoadsOfElement(ls, id) == SelectSeq(ls, LAMBDA l : l.elementId = Some(id))

RECURSIVE FemSumFrom(_, _, _, _, _, _, _)
\* fem[q] += ... over the element's loads
FemSumFrom(fem, ls, k, el, L, c, s) ==
    LET \* fem[q] += f[q] for the six entries
        AddFem(f) == [q \in 0..5 |-> Add(fem[q], f[q + 1])]
    IN  IF k > Len(ls) THEN fem
        ELSE Strict(fem, FemSumFrom(AddFem(FixedEndActionsPost(ls[k], el, L, c, s)),
                                    ls, k + 1, el, L, c, s))

\* the ascending sequence seq with x inserted, unless x is already in it
InsertSorted(seq, x) ==
    IF \E k \in 1..Len(seq) : seq[k] = x THEN seq
    ELSE LET below == Cardinality({k \in 1..Len(seq) : Lt(seq[k], x)})
         IN  SubSeq(seq, 1, below) \o <<x>> \o SubSeq(seq, below + 1, Len(seq))

RECURSIVE InsertAll(_, _)
InsertAll(seq, S) ==
    IF S = {} THEN seq
    ELSE LET x == CHOOSE y \in S : TRUE
         IN  InsertAll(InsertSorted(seq, x), S \ {x})

\* a variant that does not clamp the two offsets to the member
LoadStationsUnclamped(l, L) ==
    LET loc == Mul(LocationOf(l), L)
    IN  IF Gt(loc, Zero) /\ Lt(loc, L)
        THEN { loc, Sub(loc, Q(1, 1000)), Add(loc, Q(1, 1000)) }
        ELSE {}

\* the points a load adds to criticalX (lines 561-568)
LoadStations(l, L) ==
    LET StationOffset == Q(1, 1000)
    IN  LET loc == Mul(LocationOf(l), L)
        IN  IF Gt(loc, Zero) /\ Lt(loc, L)
            THEN { loc, MaxR(Zero, Sub(loc, StationOffset)), MinR(L, Add(loc, StationOffset)) }
            ELSE {}

\* Array.from(criticalX).sort((a, b) => a - b): the distinct station
\* positions in ascending order
SortedStations(L, elLoads) ==
    LET grid == [i \in 1..(numSteps + 1) |-> Div(Mul(R(i - 1), L), R(numSteps))]
        extra == {Zero, L} \cup UNION { LoadStations(elLoads[k], L) : k \in 1..Len(elLoads) }
    IN  IF Gt(L, Zero)
        THEN InsertAll(grid, extra)
        ELSE InsertAll(<<>>, extra \cup { grid[i] : i \in 1..(numSteps + 1) })

Station(x, n1, L, c, s, u_local, startForces, elLoads) ==
    LET \* one station of the plot (lines 575-589)
        StationPoint(vals, d) ==
            [x |-> x,
             deflectionY |-> vals.deflectionY,
             axial |-> vals.axial,
             shear |-> vals.shear,
             moment |-> vals.moment,
             globalX |-> Sub(Add(n1.x, Mul(x, c)), Mul(d, s)),
             globalY |-> Add(Add(n1.y, Mul(x, s)), Mul(d, c))]
        \* the station built from the values at x (lines 577-588)
        StationOf(vals) ==
            StationPoint(vals, Div(vals.deflectionY, R(1000)))
    IN  StationOf(calculateExactValues(x, L, c, s, u_local, startForces, elLoads))

\* if (Math.abs(v) > m) m = Math.abs(v), over the stations: the running
\* maximum started at m; a NaN value never passes the comparison
MaxAbsFrom(stations, field, m) ==
    LET S == {m} \cup { Abs(stations[k][field]) : k \in 1..Len(stations) }
        C == { v \in S : ~IsNaN(v) }
    IN  CHOOSE v \in C : \A w \in C : Ge(v, w)

\* the end displacements left in global axes
LocalDisplacementsUntransformed(ug, c, s) == ug

\* u_local = T * u_global (lines 443-456)
LocalDisplacements(ug, c, s) ==
    [i \in 0..5 |->
        CASE i = 0 -> Add(Mul(c, ug[0]), Mul(s, ug[1]))
          [] i = 1 -> Add(Mul(Neg(s), ug[0]), Mul(c, ug[1]))
          [] i = 2 -> ug[2]
          [] i = 3 -> Add(Mul(c, ug[3]), Mul(s, ug[4]))
          [] i = 4 -> Add(Mul(Neg(s), ug[3]), Mul(c, ug[4]))
          [] i = 5 -> ug[5]]

\* start forces from the stiffness part alone, without the fixed-end actions
\* of the loads on the element
StartForcesWithoutFem(el, st, g, u_local, elLoads) ==
    LET StartForcesOf(k_local) ==
            [fx |-> cleanValue(DotFrom(k_local[0], u_local, 0, 5, Zero)),
             fy |-> cleanValue(DotFrom(k_local[1], u_local, 0, 5, Zero)),
             m  |-> cleanValue(DotFrom(k_local[2], u_local, 0, 5, Zero))]
    IN  StartForcesOf(LocalStiffnessPost(el, g.L, st))

\* F_total = k_local * u_local + fem (lines 491-549)
TotalForces(el, st, g, u_local, elLoads) ==
    LET TotalOf(k_local, fem) ==
            [q \in 0..5 |-> Add(DotFrom(k_local[q], u_local, 0, 5, Zero), fem[q])]
    IN  TotalOf(LocalStiffnessPost(el, g.L, st),
                FemSumFrom([q \in 0..5 |-> Zero], elLoads, 1, el, g.L, g.c, g.s))

StartForces(el, st, g, u_local, elLoads) ==
    LET \* startForces: F_total cleaned at the start node (lines 551-555)
        StartForcesOf(F_total) ==
            [fx |-> cleanValue(F_total[0]),
             fy |-> cleanValue(F_total[1]),
             m  |-> cleanValue(F_total[2])]
    IN  StartForcesOf(TotalForces(el, st, g, u_local, elLoads))

\* the ElementResult built from the stations (lines 591-605)
ElementResultRecord(el, plotPoints, u_local, startForces) ==
    [elementId |-> el.id,
     stations |-> plotPoints,
     maxAxial |-> cleanValue(MaxAbsFrom(plotPoints, "axial", Zero)),
     maxMoment |-> cleanValue(MaxAbsFrom(plotPoints, "moment", Zero)),
     maxShear |-> cleanValue(MaxAbsFrom(plotPoints, "shear", Zero)),
     u_local |-> u_local,
     startForces |-> startForces]

\* the stations at the positions sortedX (lines 575-589)
PlotPoints(sortedX, n1, g, u_local, startForces, elLoads) ==
    [k \in 1..Len(sortedX) |->
        Station(sortedX[k], n1, g.L, g.c, g.s, u_local, startForces, elLoads)]

\* the result from the start forces
ResultFromStartForces(el, n1, g, u_local, startForces, elLoads) ==
    Strict(<<u_local, startForces>>,
           ElementResultRecord(el,
               PlotPoints(SortedStations(g.L, elLoads), n1, g, u_local, startForces,
                          elLoads),
               u_local, startForces))

\* the result from the local displacements
ResultFromDisplacements(el, st, n1, g, u_local, elLoads) ==
    ResultFromStartForces(el, n1, g, u_local,
                          StartForces(el, st, g, u_local, elLoads), elLoads)

\* the result of an element of geometry g whose end nodes exist
ResultOfConnected(el, st, n1, g, ug, elLoads) ==
    ResultFromDisplacements(el, st, n1, g, LocalDisplacements(ug, g.c, g.s), elLoads)

\* a post-processing that emits a result without stations for an element
\* whose end node is missing
ElementResultOfUnguarded(ns, ls, el, st, U) ==
    IF getDofIndex(ns, el.startNode) = -1 \/ getDofIndex(ns, el.endNode) = -1
    THEN << ElementResultRecord(el, <<>>, <<>>, <<>>) >>
    ELSE << ResultOfConnected(
                el, st, FindNode(ns, el.startNode)[1],
                Geometry(FindNode(ns, el.startNode)[1], FindNode(ns, el.endNode)[1]),
                [i \in 0..5 |-> IF i < 3 THEN U[getDofIndex(ns, el.startNode) + i]
                                ELSE U[getDofIndex(ns, el.endNode) + (i - 3)]],
                LoadsOfElement(ls, el.id)) >>

\* the ElementResult of el, or <<>> when the element is skipped (lines 426-605)
ElementResultOf(ns, ls, el, st, U) ==
    LET idx1 == getDofIndex(ns, el.startNode)
        idx2 == getDofIndex(ns, el.endNode)
    IN  IF idx1 = -1 \/ idx2 = -1 THEN <<>>
        ELSE << ResultOfConnected(
                    el, st, FindNode(ns, el.startNode)[1],
                    Geometry(FindNode(ns, el.startNode)[1], FindNode(ns, el.endNode)[1]),
                    [i \in 0..5 |-> IF i < 3 THEN U[idx1 + i] ELSE U[idx2 + (i - 3)]],
                    LoadsOfElement(ls, el.id)) >>

RECURSIVE ElementResultsFrom(_, _, _, _, _, _, _)
ElementResultsFrom(ns, es, ls, st, U, e, acc) ==
    IF e > Len(es) THEN acc
    ELSE Strict(acc, ElementResultsFrom(ns, es, ls, st, U, e + 1,
                                        acc \o ElementResultOf(ns, ls, es[e], st, U)))

RECURSIVE MaxDeflectionFrom(_, _, _)
\* the running maxDeflection over all stations of all element results
MaxDeflectionFrom(results, e, m) ==
    IF e > Len(results) THEN m
    ELSE MaxDeflectionFrom(results, e + 1,
                           MaxAbsFrom(results[e].stations, "deflectionY", m))

\* steps 5 and 6: reactions and element results from the displacements U
PostProcess(ns, es, ls, st, K_global, F_global, K_reduced, F_reduced, U) ==
    LET \* what one call of solveStructure computes: the assembled system, the
        \* displacement vector and the returned AnalysisResult
        AnalysisOf(results) ==
            [K_global |-> K_global,
             F_global |-> F_global,
             K_reduced |-> K_reduced,
             F_reduced |-> F_reduced,
             U |-> U,
             result |-> [elements |-> results,
                         maxDeflection |-> cleanValue(MaxDeflectionFrom(results, 1, Zero)),
                         reactions |-> Reactions(ns, K_global, F_global, U)]]
    IN  Strict(U, AnalysisOf(ElementResultsFrom(ns, es, ls, st, U, 1, <<>>)))

\* step 4: the reduced system solved
SolveReduced(ns, es, ls, st, K_global, F_global, K_reduced, F_reduced) ==
    Strict(<<K_reduced, F_reduced>>,
           PostProcess(ns, es, ls, st, K_global, F_global, K_reduced, F_reduced,
                       solveLinearSystem(K_reduced, F_reduced)))

\* step 3: the boundary conditions applied to copies of K_global and F_global
SolveAssembled(ns, es, ls, st, K_global, F_global) ==
    Strict(<<K_global, F_global>>,
           SolveReduced(ns, es, ls, st, K_global, F_global,
                        ReduceStiffness(K_global, ns), ReduceLoads(F_global, ns)))

solveStructure(ns, es, ls, st) ==
    SolveAssembled(ns, es, ls, st, AssembleStiffness(ns, es, st), AssembleLoads(ns, es, ls))

-----------------------------------------------------------------------------
(* src/utils/geometryGenerator.ts: autoConnectNodes                        *)

\* distance from the point (px, py) to the segment (x1, y1)-(x2, y2), and
\* the projection parameter
getDist(px, py, x1, y1, x2, y2) ==
    LET \* Math.sqrt(dx * dx + dy * dy) with the projection parameter
        DistanceTo(dx, dy, param) ==
            [dist |-> Sqrt(Add(Mul(dx, dx), Mul(dy, dy))), t |-> param]
        \* the distance to the closest point (xx, yy) of the segment
        Closest(C, D, param) ==
            DistanceTo(Sub(px, IF Lt(param, Zero) THEN x1
                               ELSE IF Gt(param, One) THEN x2 ELSE Add(x1, Mul(param, C))),
                       Sub(py, IF Lt(param, Zero) THEN y1
                               ELSE IF Gt(param, One) THEN y2 ELSE Add(y1, Mul(param, D))),
                       param)
        \* param = dot / len_sq, or -1 for a segment of length zero
        ProjectOnto(C, D) ==
            LET len_sq == Add(Mul(C, C), Mul(D, D))
            IN  Closest(C, D,
                         IF len_sq # Zero
                         THEN Div(Add(Mul(Sub(px, x1), C), Mul(Sub(py, y1), D)), len_sq)
                         ELSE R(-1))
    IN  ProjectOnto(Sub(x2, x1), Sub(y2, y1))

\* a variant that counts the elements instead of taking their largest id
nextElIdByCount(es) == Len(es) + 1

\* elements.reduce((max, e) => Math.max(max, e.id), 0) + 1
nextElId(es) ==
    LET ids == {0} \cup { es[i].id : i \in 1..Len(es) }
    IN  (CHOOSE m \in ids : \A i \in ids : i <= m) + 1

\* a variant of the filter that also takes a node at exactly 5 cm
IsSplitNodeWithin(n, n1, n2) ==
    LET SplitsAt(res) ==
            Le(res.dist, Q(5, 100)) /\ Gt(res.t, Q(1, 100)) /\ Lt(res.t, Q(99, 100))
    IN  /\ n.id # n1.id
        /\ n.id # n2.id
        /\ SplitsAt(getDist(n.x, n.y, n1.x, n1.y, n2.x, n2.y))

\* the filter of splitNodes: n is neither end node, lies within 5 cm of the
\* segment and projects strictly inside it
IsSplitNode(n, n1, n2) ==
    LET \* res.dist < 0.05 && res.t > 0.01 && res.t < 0.99
        SplitsAt(res) ==
            Lt(res.dist, Q(5, 100)) /\ Gt(res.t, Q(1, 100)) /\ Lt(res.t, Q(99, 100))
    IN  /\ n.id # n1.id
        /\ n.id # n2.id
        /\ SplitsAt(getDist(n.x, n.y, n1.x, n1.y, n2.x, n2.y))

\* seq.sort((a, b) => a.t - b.t): ascending in t, equal t in the given order
SortByT(seq) ==
    LET rank(i) == Cardinality({ j \in 1..Len(seq) :
                                   Lt(seq[j].t, seq[i].t) \/ (seq[j].t = seq[i].t /\ j < i) })
    IN  [k \in 1..Len(seq) |-> seq[CHOOSE i \in 1..Len(seq) : rank(i) = k - 1]]

\* splitNodes of the element between n1 and n2, sorted by t
splitNodes(ns, n1, n2) ==
    LET \* .map(n => ({ node: n, t: getDist(...).t }))
        WithT(hit) ==
            [i \in 1..Len(hit) |->
                [node |-> hit[i], t |-> getDist(hit[i].x, hit[i].y, n1.x, n1.y, n2.x, n2.y).t]]
    IN  SortByT(WithT(SelectSeq(ns, LAMBDA n : IsSplitNode(n, n1, n2))))

\* the points [M1, M2, ..., End] that cut element el, or <<>> when el is
\* pushed unchanged (an end node is missing, or no node splits it)
SplitPoints(ns, el) ==
    LET \* [...splitNodes, { node: n2, t: 1 }], or <<>> when no node splits
        PointsOf(sn, n2) ==
            IF Len(sn) = 0 THEN <<>> ELSE sn \o << [node |-> n2, t |-> One] >>
    IN  LET f1 == FindNode(ns, el.startNode)
            f2 == FindNode(ns, el.endNode)
        IN  IF f1 = Undefined \/ f2 = Undefined THEN <<>>
            ELSE PointsOf(splitNodes(ns, f1[1], f2[1]), f2[1])

\* elementLoads.filter(l => l.elementId === el.id), with elementLoads the
\* loads of truthy elementId
RelevantLoads(ls, el) ==
    SelectSeq(ls, LAMBDA l : Truthy(l.elementId) /\ l.elementId[1] = el.id)

\* a segment that keeps both releases of el wherever it lies in the chain
SegmentElKeepingReleases(el, n1, points, idx, elId) ==
    [el EXCEPT !.id = elId,
               !.startNode = IF idx = 1 THEN n1.id ELSE points[idx - 1].node.id,
               !.endNode = points[idx].node.id]

\* the segment that ends at points[idx] (idx from 1)
SegmentEl(el, n1, points, idx, elId) ==
    [el EXCEPT !.id = elId,
               !.startNode = IF idx = 1 THEN n1.id ELSE points[idx - 1].node.id,
               !.endNode = points[idx].node.id,
               !.releaseStart = IF idx = 1 THEN el.releaseStart ELSE FALSE,
               !.releaseEnd = IF idx = Len(points) THEN el.releaseEnd ELSE FALSE]

\* a clone of l for the segment (prevT, currentT] whose magnitude is the
\* segment's share of l
SegmentLoadShared(l, elId, prevT, currentT, drawn) ==
    << [l EXCEPT !.id = drawn, !.elementId = Some(elId),
                 !.magnitude = Mul(@, Sub(currentT, prevT))] >>

\* what relevantLoads.forEach pushes for load l on the segment (prevT, currentT]:
\* <<>> or the one clone, whose id is the drawn random id
SegmentLoad(l, elId, prevT, currentT, drawn) ==
    LET lClone == [l EXCEPT !.id = drawn, !.elementId = Some(elId)]
        loc == LocationOf(l)
        segLen == Sub(currentT, prevT)
        newLoc == IF Gt(segLen, Q(1, 1000000)) THEN Div(Sub(loc, prevT), segLen) ELSE Zero
    IN  IF l.type = "distributed" THEN << lClone >>
        ELSE IF Ge(loc, Sub(prevT, Q(1, 10000))) /\ Le(loc, Add(currentT, Q(1, 10000)))
        THEN << [lClone EXCEPT !.location = Some(MaxR(Zero, MinR(One, newLoc)))] >>
        ELSE <<>>

RECURSIVE SegmentLoadsFrom(_, _, _, _, _, _, _)
\* the clones pushed for one segment; rnd[used + j] is the draw of the j-th
\* relevant load
SegmentLoadsFrom(rel, j, elId, prevT, currentT, rnd, used) ==
    IF j > Len(rel) THEN <<>>
    ELSE SegmentLoad(rel[j], elId, prevT, currentT, rnd[used + j])
         \o SegmentLoadsFrom(rel, j + 1, elId, prevT, currentT, rnd, used)

RECURSIVE SegmentsFrom(_, _, _, _, _, _, _, _)
\* points.forEach from index idx on: the segments and the loads it pushes
SegmentsFrom(el, n1, points, idx, firstId, rel, rnd, used) ==
    IF idx > Len(points) THEN [els |-> <<>>, lds |-> <<>>]
    ELSE LET elId == firstId + idx - 1
             prevT == IF idx = 1 THEN Zero ELSE points[idx - 1].t
             rest == SegmentsFrom(el, n1, points, idx + 1, firstId, rel, rnd,
                                  used + Len(rel))
         IN  [els |-> << SegmentEl(el, n1, points, idx, elId) >> \o rest.els,
              lds |-> SegmentLoadsFrom(rel, 1, elId, prevT, points[idx].t, rnd, used)
                      \o rest.lds]

RECURSIVE ConnectFrom(_, _, _, _, _, _)
\* elements.forEach from index e on.  acc: the new elements and loads so
\* far, for each new element the index of the input element it comes from,
\* the next element id, and the number of random ids drawn
ConnectFrom(ns, es, ls, e, rnd, acc) ==
    LET \* newElements.push(el); newLoads.push(...relevantLoads)
        PushUnchanged(el, rel) ==
            [acc EXCEPT !.elements = Append(@, el),
                        !.loads = @ \o rel,
                        !.parents = Append(@, e)]
        \* the segments segs of the e-th element and their loads pushed
        PushSegments(points, rel, segs) ==
            [elements |-> acc.elements \o segs.els,
             loads |-> acc.loads \o segs.lds,
             parents |-> acc.parents \o [k \in 1..Len(points) |-> e],
             nextElId |-> acc.nextElId + Len(points),
             used |-> acc.used + Len(points) * Len(rel)]
        \* one iteration of elements.forEach, for the e-th element el
        ConnectElement(el, points, rel) ==
            IF points = <<>> THEN PushUnchanged(el, rel)
            ELSE PushSegments(points, rel,
                               SegmentsFrom(el, FindNode(ns, el.startNode)[1], points, 1,
                                            acc.nextElId, rel, rnd, acc.used))
    IN  IF e > Len(es) THEN acc
        ELSE Strict(acc, ConnectFrom(ns, es, ls, e + 1, rnd,
                                     ConnectElement(es[e], SplitPoints(ns, es[e]),
                                                    RelevantLoads(ls, es[e]))))

\* the number of random ids one call draws
DrawCount(ns, es, ls) ==
    LET n(e) == Len(SplitPoints(ns, es[e])) * Len(RelevantLoads(ls, es[e]))
        sum[e \in 0..Len(es)] == IF e = 0 THEN 0 ELSE sum[e - 1] + n(e)
    IN  sum[Len(es)]

\* a repair that starts from an empty load list, so that only the loads of
\* elements are returned
autoConnectNodesElementLoadsOnly(ns, es, ls, rnd) ==
    LET Connected(done) ==
            [nodes |-> ns, elements |-> done.elements, loads |-> done.loads,
             parents |-> done.parents]
    IN  Connected(ConnectFrom(ns, es, ls, 1, rnd,
                              [elements |-> <<>>, loads |-> <<>>, parents |-> <<>>,
                               nextElId |-> nextElId(es), used |-> 0]))

\* autoConnectNodes(nodes, elements, loads); rnd is the sequence of ids that
\* Math.random yields.  parents is not part of the program's result: it
\* records, for each returned element, the index of the input element it is
\* or was cut from.
autoConnectNodes(ns, es, ls, rnd) ==
    LET \* return { nodes, elements: newElements, loads: newLoads }
        Connected(done) ==
            [nodes |-> ns, elements |-> done.elements, loads |-> done.loads,
             parents |-> done.parents]
        \* the state of the loop before the first element, given the loads kept
        ConnectStart(kept) ==
            [elements |-> <<>>, loads |-> kept, parents |-> <<>>,
             nextElId |-> nextElId(es), used |-> 0]
    IN  Connected(ConnectFrom(ns, es, ls, 1, rnd,
                               ConnectStart(SelectSeq(ls, LAMBDA l : Truthy(l.nodeId)))))

-----------------------------------------------------------------------------
(* The structures and loads that are solved                                *)

\* the largest load magnitude (kN, kN/m, kN.m) that is applied
MaxMag == 2

NoSolve == [input |-> <<>>]

NoRepair == <<>>

NoLinear == <<>>

NoClean == <<>>

NoPlot == <<>>

\* the render cycle at rest: rendered, and every effect has run
NoHooks == [phase |-> "idle", memo |-> FALSE, regenerate |-> FALSE, cleanup |-> FALSE]

El(id, a, b, rs, re) ==
    LET \* section and material of every member: E = 1e-3 GPa, A = 10 cm2,
        \* I = 1000 cm4, so that E*A = E*I = 1 in the solver's units
        MemberE == Q(1, 1000)
        MemberA == R(10)
        MemberI == R(1000)
    IN  MkElement(id, a, b, MemberE, MemberA, MemberI, rs, re)

Pin == <<TRUE, TRUE, FALSE>>

Roller == <<FALSE, TRUE, FALSE>>

Fixed == <<TRUE, TRUE, TRUE>>

Free == <<FALSE, FALSE, FALSE>>

Structures ==
    LET \* a simply supported beam of span 4, with the given end releases, solved
        \* in the given stiffness modes
        Beam(rs, re, modes) ==
            [name |-> "beam", modes |-> modes, loadedElements |-> {1}, loadedNodes |-> {1, 2},
             nodes |-> << MkNode(1, R(0), R(0), Pin), MkNode(2, R(4), R(0), Roller) >>,
             elements |-> << El(1, 1, 2, rs, re) >>]
        \* a cantilever from (0, 0) to (x, y)
        Cantilever(x, y, modes) ==
            [name |-> "cantilever", modes |-> modes, loadedElements |-> {1}, loadedNodes |-> {1, 2},
             nodes |-> << MkNode(1, R(0), R(0), Fixed), MkNode(2, x, y, Free) >>,
             elements |-> << El(1, 1, 2, FALSE, FALSE) >>]
        \* a pin-jointed triangle: every member released at both ends
        Truss ==
            [name |-> "truss", modes |-> {"Elastic"},
             loadedElements |-> {1, 3}, loadedNodes |-> {2, 3},
             nodes |-> << MkNode(1, R(0), R(0), Pin), MkNode(2, Q(4, 5), R(0), Roller),
                          MkNode(3, Q(4, 5), Q(3, 5), Free) >>,
             elements |-> << El(1, 1, 2, TRUE, TRUE), El(2, 2, 3, TRUE, TRUE),
                             El(3, 1, 3, TRUE, TRUE) >>]
        \* a beam of two spans, the second one released as given
        TwoSpan(rs, re) ==
            [name |-> "twospan", modes |-> {"Elastic"},
             loadedElements |-> {2}, loadedNodes |-> {2, 3},
             nodes |-> << MkNode(1, R(0), R(0), Pin), MkNode(2, R(4), R(0), Roller),
                          MkNode(3, R(8), R(0), Roller) >>,
             elements |-> << El(1, 1, 2, FALSE, FALSE), El(2, 2, 3, rs, re) >>]
        \* a cantilever whose tip carries a second node at the same place, joined
        \* to the tip by a member of length zero
        ZeroLength(rs, re) ==
            [name |-> "zerolength", modes |-> {"Elastic"},
             loadedElements |-> IF rs THEN {2} ELSE {1, 2}, loadedNodes |-> {2},
             nodes |-> << MkNode(1, R(0), R(0), Fixed), MkNode(2, R(4), R(0), Free),
                          MkNode(3, R(4), R(0), Free) >>,
             elements |-> << El(1, 1, 2, rs, re), El(2, 2, 3, rs, re) >>]
        \* a simply supported beam and a member from node a to node b, one of
        \* which does not exist
        Dangling(a, b) ==
            [name |-> "dangling", modes |-> {"Elastic"},
             loadedElements |-> {1, 2}, loadedNodes |-> {2},
             nodes |-> << MkNode(1, R(0), R(0), Pin), MkNode(2, R(4), R(0), Roller) >>,
             elements |-> << El(1, 1, 2, FALSE, FALSE), El(2, a, b, FALSE, FALSE) >>]
    IN  LET StiffnessTypes == {"Elastic", "AxiallyRigid", "Rigid"}
        IN  { Beam(FALSE, FALSE, StiffnessTypes), Beam(TRUE, TRUE, {"Elastic", "Rigid"}),
              Beam(TRUE, FALSE, {"Elastic"}), Beam(FALSE, TRUE, {"Elastic"}) }
            \cup { Cantilever(R(4), R(0), {"Elastic"}),
                   Cantilever(Q(3, 5), Q(4, 5), {"Elastic", "AxiallyRigid"}),
                   Cantilever(R(0), R(4), {"Elastic"}) }
            \cup { Truss, Dangling(2, 9), Dangling(9, 2) }
            \cup { TwoSpan(TRUE, TRUE) }
            \cup { ZeroLength(FALSE, FALSE), ZeroLength(TRUE, TRUE) }

\* the load cases of a structure: one load on one of its loaded members or
\* on one of its loaded nodes
LoadCases(str) ==
    LET \* the loads of magnitude mag that can be put on element e
        ElementLoads(e, mag) ==
            { MkLoad("w", Some(e), Undefined, "distributed", mag, Undefined, Undefined),
              MkLoad("wx", Some(e), Undefined, "distributed", mag, Some("x"), Undefined),
              MkLoad("p", Some(e), Undefined, "point", mag, Some("y"), Undefined),
              MkLoad("px", Some(e), Undefined, "point", mag, Some("x"), Some(Q(1, 4))),
              MkLoad("m", Some(e), Undefined, "moment", mag, Undefined, Some(Q(1, 4))) }
        \* the loads of magnitude mag that can be put on node n
        NodeLoads(n, mag) ==
            { MkLoad("P", Undefined, Some(n), "point", mag, Undefined, Undefined),
              MkLoad("Px", Undefined, Some(n), "point", mag, Some("x"), Undefined),
              MkLoad("M", Undefined, Some(n), "moment", mag, Undefined, Undefined) }
    IN  LET Magnitudes == { R(-m) : m \in 1..MaxMag }
        IN  { << l >> : l \in UNION { ElementLoads(e, mag) :
                                        e \in str.loadedElements, mag \in Magnitudes } }
            \cup { << l >> : l \in UNION { NodeLoads(n, mag) :
                                        n \in str.loadedNodes, mag \in Magnitudes } }

InitSolve ==
    /\ \E str \in Structures :
         /\ nodes = str.nodes
         /\ elements = str.elements
         /\ loads \in LoadCases(str)
         /\ stiffnessType \in str.modes
    /\ structureType = "Custom"
    /\ numSpans = 3
    /\ hooks = NoHooks
    /\ op = "init"
    /\ solved = NoSolve
    /\ repairIn = NoRepair
    /\ origin = <<>>
    /\ linear = NoLinear
    /\ cleaned = NoClean
    /\ plotted = NoPlot

\* the analysis of the current parameters (App, useMemo): one call of
\* solveStructure
Solve ==
    /\ solved = NoSolve
    /\ ~(Len(nodes) < 2 \/ Len(elements) = 0)
    /\ solved' = [input |-> <<nodes, elements, loads, stiffnessType>>]
                 @@ solveStructure(nodes, elements, loads, stiffnessType)
    /\ op' = "solve"
    /\ UNCHANGED <<nodes, elements, loads, stiffnessType, structureType, numSpans, hooks,
                   repairIn, origin, linear, cleaned, plotted>>

NextSolve == Solve

SpecSolve == InitSolve /\ [][NextSolve]_vars

-----------------------------------------------------------------------------
(* The geometries that are repaired                                        *)

\* the largest number of nodes drawn besides the three end nodes
MaxExtra == 2

\* the largest number of loads on the geometry
MaxLoads == 1

\* the ids that 'auto-' + Math.random() can yield: two, so that two draws
\* can differ and can collide
RandomIds == {"auto-a", "auto-b"}

\* the subsequence of seq at the indices in S, in ascending order
Pick(seq, S) ==
    LET rank(i) == Cardinality({ j \in S : j < i })
    IN  [k \in 1..Cardinality(S) |-> seq[CHOOSE i \in S : rank(i) = k - 1]]

SubSeqs(seq, max) ==
    { Pick(seq, S) : S \in { T \in SUBSET (1..Len(seq)) : Cardinality(T) <= max } }

\* member 1 runs from (0, 0) to (4, 0) and is released at its start, member
\* 2 runs from (4, 0) to (4, 0.08) and is released at its end; member 3
\* names an end node that does not exist
RepairEndNodes ==
    << MkNode(1, R(0), R(0), Fixed), MkNode(2, R(4), R(0), Free),
       MkNode(3, R(4), Q(2, 25), Free) >>

RepairElements ==
    << El(1, 1, 2, TRUE, FALSE), El(2, 2, 3, FALSE, TRUE), El(3, 3, 9, FALSE, FALSE) >>

\* where further nodes can lie: on member 1 at t = 1/2 and at t = 1/4, near
\* its start at t = 0.0075, beside it at distance 0.05, and beside member 2
\* at distance 0.03 and t = 1/2
ExtraPositions ==
    << <<R(2), R(0)>>, <<R(1), R(0)>>, <<Q(3, 100), R(0)>>, <<R(2), Q(1, 20)>>,
       <<Q(403, 100), Q(1, 25)>> >>

ExtraNodes(ps) == [k \in 1..Len(ps) |-> MkNode(3 + k, ps[k][1], ps[k][2], Free)]

RepairLoads ==
    << MkLoad("p1", Some(1), Undefined, "point", R(-4), Some("y"), Some(Q(1, 2))),
       MkLoad("m1", Some(1), Undefined, "moment", R(5), Undefined, Some(Q(3, 4))),
       MkLoad("w1", Some(1), Undefined, "distributed", R(-1), Undefined, Undefined),
       MkLoad("n2", Undefined, Some(2), "point", R(-6), Some("y"), Undefined),
       MkLoad("w2", Some(2), Undefined, "distributed", R(-2), Some("x"), Undefined),
       MkLoad("p3", Some(3), Undefined, "point", R(-7), Undefined, Undefined) >>

InitRepair ==
    /\ \E ps \in SubSeqs(ExtraPositions, MaxExtra) : nodes = RepairEndNodes \o ExtraNodes(ps)
    /\ elements = RepairElements
    /\ loads \in SubSeqs(RepairLoads, MaxLoads)
    /\ stiffnessType = "Elastic"
    /\ structureType = "Custom"
    /\ numSpans = 3
    /\ hooks = NoHooks
    /\ op = "init"
    /\ solved = NoSolve
    /\ repairIn = NoRepair
    /\ origin = <<>>
    /\ linear = NoLinear
    /\ cleaned = NoClean
    /\ plotted = NoPlot

\* GeometryEditor.handleAutoConnect: the parameters are replaced by the
\* result of autoConnectNodes; h is what the update leaves of the hooks of App
handleAutoConnectThen(h) ==
    LET \* setParams(prev => ({ ...prev, nodes, elements, loads })) with the result
        \* res of autoConnectNodes
        SetRepaired(res) ==
            /\ nodes' = res.nodes
            /\ elements' = res.elements
            /\ loads' = res.loads
            /\ origin' = res.parents
            /\ repairIn' = [nodes |-> nodes, elements |-> elements, loads |-> loads]
            /\ op' = "autoConnect"
            /\ hooks' = h
            /\ UNCHANGED <<stiffnessType, structureType, numSpans, solved, linear,
                           cleaned, plotted>>
    IN  \E rnd \in [1..DrawCount(nodes, elements, loads) -> RandomIds] :
            SetRepaired(autoConnectNodes(nodes, elements, loads, rnd))

\* the handler on its own, without the render cycle of App
handleAutoConnect == handleAutoConnectThen(hooks)

NextRepair == handleAutoConnect

SpecRepair == InitRepair /\ [][NextRepair]_vars

-----------------------------------------------------------------------------
(* The application: App (src/unnamed/part_001) and GeometryEditor.  One    *)
(* render cycle is a render, in which useMemo calls solveStructure when    *)
(* one of its dependencies has changed, followed by the effects whose      *)
(* dependencies have changed; the state updates of the effects start the   *)
(* next render.  The handlers of the user's actions run between cycles.    *)
(* Of a call of solveStructure this part records the arguments in solved;  *)
(* what the call computes is the subject of SpecSolve.                     *)

\* the largest number of loads that are put on the structure
MaxAppLoads == 2

\* generateGeometry(type, 10, 5, 2, 200, 50, 200, spans, 2, 2): width,
\* height, E, A and I as App sets them.  No branch applies to Custom.
generateGeometry(type, spans) ==
    LET addEl(id, n1, n2) == MkElement(id, n1, n2, R(200), R(50), R(200), FALSE, FALSE)
        spanLen == Q(10, spans)
    IN  IF type = "MultiSpanBeam"
        THEN [nodes |-> [i \in 1..(spans + 1) |->
                            MkNode(i, Mul(R(i - 1), spanLen), R(0),
                                   IF i = 1 THEN Pin ELSE Roller)],
              elements |-> [i \in 1..spans |-> addEl(i, i, i + 1)]]
        ELSE IF type = "PortalFrame"
        THEN [nodes |-> << MkNode(1, R(0), R(0), Fixed), MkNode(2, R(0), R(5), Free),
                           MkNode(3, R(10), R(5), Free), MkNode(4, R(10), R(0), Fixed) >>,
              elements |-> << addEl(1, 1, 2), addEl(2, 2, 3), addEl(3, 3, 4) >>]
        ELSE [nodes |-> <<>>, elements |-> <<>>]

\* useState<SolverParams>: the state before the first render
InitApp ==
    /\ structureType = "PortalFrame"
    /\ numSpans = 3
    /\ nodes = generateGeometry("PortalFrame", 2).nodes
    /\ elements = generateGeometry("PortalFrame", 2).elements
    /\ loads = <<>>
    /\ stiffnessType = "Elastic"
    /\ hooks = [phase |-> "render", memo |-> TRUE, regenerate |-> TRUE, cleanup |-> TRUE]
    /\ op = "init"
    /\ solved = NoSolve
    /\ repairIn = NoRepair
    /\ origin = <<>>
    /\ linear = NoLinear
    /\ cleaned = NoClean
    /\ plotted = NoPlot

\* a slider or the type selector of the control panel sets one parameter:
\* setParams(prev => ({ ...prev, [key]: value }))
setParameter ==
    LET \* the structure types and the span counts that are selected
        AppTypes == {"PortalFrame", "MultiSpanBeam"}
        SpanCounts == {2, 3}
    IN  /\ hooks.phase = "idle"
        /\ \E type \in AppTypes, spans \in SpanCounts :
              /\ (type = structureType) # (spans = numSpans)
              /\ structureType' = type
              /\ numSpans' = spans
        /\ hooks' = [hooks EXCEPT !.phase = "render", !.regenerate = TRUE]
        /\ op' = "setParameter"
        /\ UNCHANGED <<nodes, elements, loads, stiffnessType, solved, repairIn, origin,
                       linear, cleaned, plotted>>

\* handleAddLoad: loads: [...prev.loads, load]
handleAddLoad ==
    LET \* the loads that the visualizer offers: one on a node or on an element of
        \* the structure shown
        OfferedLoads ==
            { MkLoad("load", Undefined, Some(nodes[i].id), "point", R(-10), Some("y"), Undefined) :
                i \in 1..Len(nodes) }
            \cup { MkLoad("load", Some(elements[i].id), Undefined, "distributed", R(-10),
                          Some("y"), Undefined) : i \in 1..Len(elements) }
    IN  /\ hooks.phase = "idle"
        /\ Len(loads) < MaxAppLoads
        /\ \E load \in OfferedLoads : loads' = Append(loads, load)
        /\ hooks' = [hooks EXCEPT !.phase = "render", !.memo = TRUE]
        /\ op' = "addLoad"
        /\ UNCHANGED <<nodes, elements, stiffnessType, structureType, numSpans, solved,
                       repairIn, origin, linear, cleaned, plotted>>

\* a variant that keeps the loads on the elements that are removed
removeNodeKeepingLoads(id) ==
    /\ hooks.phase = "idle"
    /\ structureType' = "Custom"
    /\ nodes' = SelectSeq(nodes, LAMBDA n : n.id # id)
    /\ elements' = SelectSeq(elements, LAMBDA e : e.startNode # id /\ e.endNode # id)
    /\ loads' = SelectSeq(loads, LAMBDA l : l.nodeId # Some(id))
    /\ hooks' = [phase |-> "render", memo |-> TRUE, cleanup |-> TRUE,
                 regenerate |-> hooks.regenerate \/ structureType # "Custom"]
    /\ op' = "removeNode"
    /\ UNCHANGED <<stiffnessType, numSpans, solved, repairIn, origin, linear, cleaned, plotted>>

\* GeometryEditor.removeNode(id), switchToCustom included
removeNode(id) ==
    /\ hooks.phase = "idle"
    /\ structureType' = "Custom"
    /\ nodes' = SelectSeq(nodes, LAMBDA n : n.id # id)
    /\ elements' = SelectSeq(elements, LAMBDA e : e.startNode # id /\ e.endNode # id)
    /\ loads' = SelectSeq(loads, LAMBDA l :
                      /\ l.nodeId # Some(id)
                      /\ \/ ~Truthy(l.elementId)
                         \/ ~\E i \in 1..Len(elements) :
                                /\ elements[i].id = l.elementId[1]
                                /\ elements[i].startNode = id \/ elements[i].endNode = id)
    /\ hooks' = [phase |-> "render", memo |-> TRUE, cleanup |-> TRUE,
                 regenerate |-> hooks.regenerate \/ structureType # "Custom"]
    /\ op' = "removeNode"
    /\ UNCHANGED <<stiffnessType, numSpans, solved, repairIn, origin, linear, cleaned, plotted>>

\* GeometryEditor.removeElement(id), switchToCustom included
removeElement(id) ==
    /\ hooks.phase = "idle"
    /\ structureType' = "Custom"
    /\ elements' = SelectSeq(elements, LAMBDA e : e.id # id)
    /\ loads' = SelectSeq(loads, LAMBDA l : l.elementId # Some(id))
    /\ hooks' = [phase |-> "render", memo |-> TRUE, cleanup |-> TRUE,
                 regenerate |-> hooks.regenerate \/ structureType # "Custom"]
    /\ op' = "removeElement"
    /\ UNCHANGED <<nodes, stiffnessType, numSpans, solved, repairIn, origin, linear, cleaned,
                   plotted>>

\* a render of App: useMemo calls solveStructure when nodes, elements, loads
\* or stiffnessType has changed, unless there are too few nodes or elements
Render ==
    /\ hooks.phase = "render"
    /\ solved' = IF ~hooks.memo THEN solved
                 ELSE IF Len(nodes) < 2 \/ Len(elements) = 0 THEN NoSolve
                 ELSE [input |-> <<nodes, elements, loads, stiffnessType>>]
    /\ hooks' = [hooks EXCEPT !.phase = "effects", !.memo = FALSE]
    /\ op' = "render"
    /\ UNCHANGED <<nodes, elements, loads, stiffnessType, structureType, numSpans,
                   repairIn, origin, linear, cleaned, plotted>>

\* the effects after a render: the regeneration of the geometry when a
\* parameter has changed and the type is not Custom, then the cleanup of the
\* loads when nodes or elements had changed in the render
Effects ==
    LET \* validLoads of the cleanup effect: the loads of ls whose target is in ns or es
        ValidLoads(ns, es, ls) ==
            SelectSeq(ls, LAMBDA l :
                IF l.nodeId # Undefined THEN \E i \in 1..Len(ns) : ns[i].id = l.nodeId[1]
                ELSE IF l.elementId # Undefined THEN \E i \in 1..Len(es) : es[i].id = l.elementId[1]
                ELSE FALSE)
        \* the state after the updates of the two effects: geom replaces the nodes
        \* and the elements when regenerated, and the valid loads replace the loads
        \* when the cleanup effect runs and a load is not valid
        SetAfterEffects(regenerated, geom, validLoads) ==
            /\ nodes' = IF regenerated THEN geom.nodes ELSE nodes
            /\ elements' = IF regenerated THEN geom.elements ELSE elements
            /\ loads' = validLoads
            /\ hooks' = [phase |-> IF regenerated \/ Len(validLoads) # Len(loads)
                                   THEN "render" ELSE "idle",
                         memo |-> regenerated \/ Len(validLoads) # Len(loads),
                         regenerate |-> FALSE,
                         cleanup |-> regenerated]
    IN  /\ hooks.phase = "effects"
        /\ IF hooks.regenerate /\ structureType # "Custom"
           THEN SetAfterEffects(TRUE, generateGeometry(structureType, numSpans),
                                IF hooks.cleanup
                                THEN ValidLoads(generateGeometry(structureType, numSpans).nodes,
                                                generateGeometry(structureType, numSpans).elements,
                                                loads)
                                ELSE loads)
           ELSE SetAfterEffects(FALSE, [nodes |-> nodes, elements |-> elements],
                                IF hooks.cleanup THEN ValidLoads(nodes, elements, loads)
                                ELSE loads)
        /\ op' = "effects"
        /\ UNCHANGED <<stiffnessType, structureType, numSpans, solved, repairIn, origin,
                       linear, cleaned, plotted>>

NextApp ==
    \/ setParameter
    \/ handleAddLoad
    \/ \E i \in 1..Len(nodes) : removeNode(nodes[i].id)
    \/ \E i \in 1..Len(elements) : removeElement(elements[i].id)
    \/ Render
    \/ Effects

SpecApp == InitApp /\ [][NextApp]_vars

-----------------------------------------------------------------------------
(* The geometry editor: the handlers of GeometryEditor that add and remove *)
(* nodes and elements and that repair the connectivity, on a Custom        *)
(* structure, with the render cycle of App between them                    *)

\* the largest number of nodes and of elements up to which one is added
MaxEditNodes == 3

MaxEditElements == 2

\* the largest id up to which a node or an element is added or a repair is made
MaxEditId == 3

\* GeometryEditor.addNode, switchToCustom included
addNode ==
    LET maxId == nextElId(nodes) - 1
    IN  /\ hooks.phase = "idle"
        /\ Len(nodes) < MaxEditNodes
        /\ maxId < MaxEditId
        /\ structureType' = "Custom"
        /\ nodes' = Append(nodes, MkNode(maxId + 1, Zero, Zero, Free))
        /\ hooks' = [phase |-> "render", memo |-> TRUE, cleanup |-> TRUE,
                     regenerate |-> hooks.regenerate \/ structureType # "Custom"]
        /\ op' = "addNode"
        /\ UNCHANGED <<elements, loads, stiffnessType, numSpans, solved, repairIn, origin,
                       linear, cleaned, plotted>>

\* GeometryEditor.addElement, switchToCustom included: an element between
\* the first two nodes, with E, A and I of the parameters as App sets them
addElement ==
    LET maxId == nextElId(elements) - 1
    IN  /\ hooks.phase = "idle"
        /\ Len(elements) < MaxEditElements
        /\ maxId < MaxEditId
        /\ ~(Len(nodes) < 2)
        /\ structureType' = "Custom"
        /\ elements' = Append(elements,
                              MkElement(maxId + 1, nodes[1].id, nodes[2].id,
                                        R(200), R(50), R(200), FALSE, FALSE))
        /\ hooks' = [phase |-> "render", memo |-> TRUE, cleanup |-> TRUE,
                     regenerate |-> hooks.regenerate \/ structureType # "Custom"]
        /\ op' = "addElement"
        /\ UNCHANGED <<nodes, loads, stiffnessType, numSpans, solved, repairIn, origin,
                       linear, cleaned, plotted>>

\* a Custom structure at rest: the portal frame or the two-span beam as
\* generated, or the members of the repaired geometries with a node in the
\* middle of the first one
InitEdit ==
    /\ \/ \E type \in {"PortalFrame", "MultiSpanBeam"} :
             /\ nodes = generateGeometry(type, 2).nodes
             /\ elements = generateGeometry(type, 2).elements
       \/ /\ nodes = RepairEndNodes \o ExtraNodes(<< ExtraPositions[1] >>)
          /\ elements = RepairElements
    /\ loads = <<>>
    /\ stiffnessType = "Elastic"
    /\ structureType = "Custom"
    /\ numSpans = 2
    /\ hooks = NoHooks
    /\ op = "init"
    /\ solved = NoSolve
    /\ repairIn = NoRepair
    /\ origin = <<>>
    /\ linear = NoLinear
    /\ cleaned = NoClean
    /\ plotted = NoPlot

NextEdit ==
    \/ addNode
    \/ \E i \in 1..Len(nodes) : removeNode(nodes[i].id)
    \/ addElement
    \/ \E i \in 1..Len(elements) : removeElement(elements[i].id)
    \/ /\ hooks.phase = "idle"
       /\ nextElId(elements) <= MaxEditId
       /\ handleAutoConnectThen([phase |-> "render", memo |-> TRUE, cleanup |-> TRUE,
                                 regenerate |-> hooks.regenerate])
    \/ Render
    \/ Effects

SpecEdit == InitEdit /\ [][NextEdit]_vars

-----------------------------------------------------------------------------
(* The linear systems that are solved                                      *)

\* the largest order of a system
MaxOrder == 3

RECURSIVE ForwardRun(_, _, _, _)
\* the iterations of the elimination loop from column i on: of each, the
\* matrix after the pivot search and the swap, and the matrix that the
\* iteration leaves
ForwardRun(M, i, n, acc) ==
    IF i >= n THEN acc
    ELSE ForwardRun(ForwardStep(Pivoted(M, i, n), i, n), i + 1, n,
                    Append(acc, [pivoted |-> Pivoted(M, i, n),
                                 after |-> ForwardStep(Pivoted(M, i, n), i, n)]))

\* a matrix of zeros and ones, and a right-hand side whose entries are 0, 1
\* or NaN (as the entries of the load vector are after a load on a member of
\* length zero)
InitLinear ==
    /\ \E n \in 2..MaxOrder :
          \E A \in [0..(n - 1) -> [0..(n - 1) -> {Zero, One}]],
             b \in [0..(n - 1) -> {Zero, One, NaN}] :
              linear = [A |-> A, b |-> b, steps |-> <<>>, x |-> <<>>]
    /\ nodes = <<>>
    /\ elements = <<>>
    /\ loads = <<>>
    /\ stiffnessType = "Elastic"
    /\ structureType = "Custom"
    /\ numSpans = 3
    /\ hooks = NoHooks
    /\ op = "init"
    /\ solved = NoSolve
    /\ repairIn = NoRepair
    /\ origin = <<>>
    /\ cleaned = NoClean
    /\ plotted = NoPlot

\* one call of solveLinearSystem
SolveLinear ==
    /\ linear # NoLinear
    /\ linear.steps = <<>>
    /\ linear' = [linear EXCEPT
                    !.steps = ForwardRun(Augmented(linear.A, linear.b,
                                                   Cardinality(DOMAIN linear.b)),
                                         0, Cardinality(DOMAIN linear.b), <<>>),
                    !.x = solveLinearSystem(linear.A, linear.b)]
    /\ op' = "solveLinear"
    /\ UNCHANGED <<nodes, elements, loads, stiffnessType, structureType, numSpans, hooks,
                   solved, repairIn, origin, cleaned, plotted>>

NextLinear == SolveLinear

SpecLinear == InitLinear /\ [][NextLinear]_vars

-----------------------------------------------------------------------------
(* The values that are cleaned                                             *)

\* the values n/400 that are cleaned have |n| <= MaxCoarse
MaxCoarse == 1200

\* the values n/100000 and 1/8 + n/100000 that are cleaned have |n| <= MaxFine
MaxFine == 60

\* a value on the grid of 0.0025 up to 3, a value on the grid of 0.00001 next
\* to 0 or next to 0.125 or -0.125, or a non-finite value
InitClean ==
    /\ \E val \in { Q(n, 400) : n \in -MaxCoarse..MaxCoarse }
                  \cup { Q(n, 100000) : n \in -MaxFine..MaxFine }
                  \cup { Q(12500 + n, 100000) : n \in -MaxFine..MaxFine }
                  \cup { Q(-12500 + n, 100000) : n \in -MaxFine..MaxFine }
                  \cup { NaN, Inf(1), Inf(-1) } :
          cleaned = [val |-> val, out |-> <<>>]
    /\ nodes = <<>>
    /\ elements = <<>>
    /\ loads = <<>>
    /\ stiffnessType = "Elastic"
    /\ structureType = "Custom"
    /\ numSpans = 3
    /\ hooks = NoHooks
    /\ op = "init"
    /\ solved = NoSolve
    /\ repairIn = NoRepair
    /\ origin = <<>>
    /\ linear = NoLinear
    /\ plotted = NoPlot

\* one call of cleanValue
Clean ==
    /\ cleaned # NoClean
    /\ cleaned.out = <<>>
    /\ cleaned' = [cleaned EXCEPT !.out = << cleanValue(cleaned.val) >>]
    /\ op' = "cleanValue"
    /\ UNCHANGED <<nodes, elements, loads, stiffnessType, structureType, numSpans, hooks,
                   solved, repairIn, origin, linear, plotted>>

NextClean == Clean

SpecClean == InitClean /\ [][NextClean]_vars

-----------------------------------------------------------------------------
(* The members whose stations are plotted                                  *)

\* the station loop of one element of solveStructure (solver.ts 557-593) on a
\* member from (0, 0) to (4, 0) or to (3/5, 4/5) that has not displaced,
\* with the given start forces and one load on it: a load at no location, at
\* the ends, inside the member, or (a point load or a moment) within 0.001,
\* 1e-4 or 1e-6 of an end
InitPlot ==
    /\ \E far \in { <<R(4), R(0)>>, <<Q(3, 5), Q(4, 5)>> },
          startForces \in { [fx |-> Zero, fy |-> Zero, m |-> Zero],
                            [fx |-> One, fy |-> R(2), m |-> Q(-3, 2)] },
          type \in {"point", "moment", "distributed"},
          direction \in { Undefined, Some("x") },
          location \in { Undefined, Some(Zero), Some(One), Some(Q(1, 4)),
                         Some(Q(1, 8000)), Some(Q(7999, 8000)),
                         Some(Q(1, 80000)), Some(Q(79999, 80000)),
                         Some(Q(7999999, 8000000)) },
          mag \in 1..MaxMag :
          /\ type = "distributed" => location \in { Undefined, Some(Q(1, 4)) }
          /\ plotted = [n1 |-> MkNode(1, Zero, Zero, Free),
                        g |-> Geometry(MkNode(1, Zero, Zero, Free),
                                       MkNode(2, far[1], far[2], Free)),
                        u_local |-> [i \in 0..5 |-> Zero],
                        startForces |-> startForces,
                        elLoads |-> << MkLoad("l", Some(1), Undefined, type, R(-mag),
                                              direction, location) >>,
                        stations |-> <<>>]
    /\ nodes = <<>>
    /\ elements = <<>>
    /\ loads = <<>>
    /\ stiffnessType = "Elastic"
    /\ structureType = "Custom"
    /\ numSpans = 3
    /\ hooks = NoHooks
    /\ op = "init"
    /\ solved = NoSolve
    /\ repairIn = NoRepair
    /\ origin = <<>>
    /\ linear = NoLinear
    /\ cleaned = NoClean

\* the plot stations of the member are generated and evaluated
Plot ==
    /\ plotted # NoPlot
    /\ plotted.stations = <<>>
    /\ plotted' = [plotted EXCEPT
                     !.stations = PlotPoints(SortedStations(plotted.g.L, plotted.elLoads),
                                             plotted.n1, plotted.g, plotted.u_local,
                                             plotted.startForces, plotted.elLoads)]
    /\ op' = "plot"
    /\ UNCHANGED <<nodes, elements, loads, stiffnessType, structureType, numSpans, hooks,
                   solved, repairIn, origin, linear, cleaned>>

NextPlot == Plot

SpecPlot == InitPlot /\ [][NextPlot]_vars

-----------------------------------------------------------------------------
(* Claims about solveStructure (SpecSolve)                                 *)

\* |v| <= tol, for a finite v
Within(v, tol) == IsFinite(v) /\ Le(Abs(v), tol)

\* the element results of the last solve whose element is released at both ends
BothReleasedResults ==
    { i \in 1..Len(solved.result.elements) :
        LET el == FindElement(elements, solved.result.elements[i].elementId)[1]
        IN  el.releaseStart /\ el.releaseEnd }

\* the length of the element of the i-th element result
ResultLength(i) ==
    LET el == FindElement(elements, solved.result.elements[i].elementId)[1]
    IN  Geometry(FindNode(nodes, el.startNode)[1], FindNode(nodes, el.endNode)[1]).L

\* C1: after a solve, the displacement of every restrained degree of freedom
\* (3 * node index + offset, restraints[offset] set) is exactly 0.
C1_RestrainedDisplacementIsZero ==
    op = "solve" =>
        \A k \in DOMAIN solved.U : Restrained(nodes, k) => solved.U[k] = Zero

\* the resultant of a load as the program reads it: <<Fx, Fy, moment about
\* the origin>>.  A distributed load is a force per length of member in a
\* global direction; a load that names no existing node or member acts on
\* nothing.
LoadResultant(l) ==
    LET none == <<Zero, Zero, Zero>>
        force(mag, dir, x, y) ==
            IF dir = "x" THEN <<mag, Zero, Neg(Mul(y, mag))>>
            ELSE <<Zero, mag, Mul(x, mag)>>
    IN  IF ~Truthy(l.elementId) /\ Truthy(l.nodeId)
        THEN LET f == FindNode(nodes, l.nodeId[1])
             IN  IF f = Undefined THEN none
                 ELSE IF l.type = "moment" THEN <<Zero, Zero, l.magnitude>>
                 ELSE force(l.magnitude, DirectionOf(l), f[1].x, f[1].y)
        ELSE IF Truthy(l.elementId)
        THEN LET fe == FindElement(elements, l.elementId[1])
                 f1 == IF fe = Undefined THEN Undefined ELSE FindNode(nodes, fe[1].startNode)
                 f2 == IF fe = Undefined THEN Undefined ELSE FindNode(nodes, fe[1].endNode)
             IN  IF f1 = Undefined \/ f2 = Undefined THEN none
                 ELSE LET n1 == f1[1]
                          n2 == f2[1]
                          at(t) == <<Add(n1.x, Mul(t, Sub(n2.x, n1.x))),
                                     Add(n1.y, Mul(t, Sub(n2.y, n1.y)))>>
                      IN  CASE l.type = "distributed" ->
                                 force(Mul(l.magnitude, Geometry(n1, n2).L), DirectionOf(l),
                                       at(Half)[1], at(Half)[2])
                            [] l.type = "point" ->
                                 force(l.magnitude, DirectionOf(l),
                                       at(LocationOf(l))[1], at(LocationOf(l))[2])
                            [] l.type = "moment" -> <<Zero, Zero, l.magnitude>>
        ELSE none

\* the resultant of a reaction entry: <<Fx, Fy, moment about the origin>>
ReactionResultant(r) ==
    LET n == FindNode(nodes, r.nodeId)[1]
    IN  <<r.fx, r.fy, Add(r.m, Sub(Mul(n.x, r.fy), Mul(n.y, r.fx)))>>

\* component c of the sum of all reactions and all loads
Unbalance(c) ==
    LET rs == solved.result.reactions
        sumR[i \in 0..Len(rs)] ==
            IF i = 0 THEN Zero ELSE Add(sumR[i - 1], ReactionResultant(rs[i])[c])
        sumL[i \in 0..Len(loads)] ==
            IF i = 0 THEN Zero ELSE Add(sumL[i - 1], LoadResultant(loads[i])[c])
    IN  Add(sumR[Len(rs)], sumL[Len(loads)])

\* what a reaction component may be off by after cleanValue, with its lever arm
EquilibriumTol == Q(1, 2)

\* C2: after a solve, the reactions and the applied loads sum to
\* approximately 0 in global x, in global y and in moment about the origin.
C2_GlobalEquilibrium ==
    op = "solve" => \A c \in 1..3 : Within(Unbalance(c), EquilibriumTol)

\* what counts as approximately 0 for a reported moment
MomentTol == Q(1, 20)

PinJointed ==
    \A e \in 1..Len(elements) : elements[e].releaseStart /\ elements[e].releaseEnd

\* C4: after the solve of a structure whose elements are all released at
\* both ends, every displacement is a finite number and the displacement of
\* every rotational degree of freedom (3 * i + 2) is 0.
C4_TrussSolves ==
    (op = "solve" /\ PinJointed) =>
        /\ \A k \in DOMAIN solved.U : IsFinite(solved.U[k])
        /\ \A i \in 0..(Len(nodes) - 1) : solved.U[3 * i + 2] = Zero

-----------------------------------------------------------------------------
(* Connectivity repair: the last call's input is repairIn, its output is   *)
(* nodes, elements and loads, and origin[c] is the index in                *)
(* repairIn.elements of the element that output element c is or was cut    *)
(* from                                                                    *)

Repaired == op = "autoConnect"

Parents == 1..Len(repairIn.elements)

Parent(p) == repairIn.elements[p]

\* the output elements that come from input element p, in output order
Children(p) == { c \in 1..Len(elements) : origin[c] = p }

WasSplit(p) == Cardinality(Children(p)) > 1

FirstChild(p) == CHOOSE c \in Children(p) : \A d \in Children(p) : c <= d

LastChild(p) == CHOOSE c \in Children(p) : \A d \in Children(p) : d <= c

\* the parametric range (PrevT(c), CurrentT(c)] of its parent that output
\* element c covers
PrevT(c) ==
    LET p == origin[c]
        idx == c - FirstChild(p) + 1
    IN  IF idx = 1 THEN Zero ELSE SplitPoints(repairIn.nodes, Parent(p))[idx - 1].t

CurrentT(c) ==
    LET p == origin[c]
    IN  SplitPoints(repairIn.nodes, Parent(p))[c - FirstChild(p) + 1].t

\* what a load is, apart from its id, its element and its location
Kind(l) == <<l.type, l.magnitude, l.direction>>

KindsOf(ls) == [k \in 1..Len(ls) |-> Kind(ls[k])]

Distributed(ls) == SelectSeq(ls, LAMBDA l : l.type = "distributed")

Concentrated(ls) == SelectSeq(ls, LAMBDA l : l.type # "distributed")

\* the loads of the output that sit on output element c
LoadsOn(c) == LoadsOfElement(loads, elements[c].id)

\* the length of output element c, between the positions of its end nodes
LengthOf(ns, el) == Geometry(FindNode(ns, el.startNode)[1], FindNode(ns, el.endNode)[1]).L

RECURSIVE SumLengths(_)
SumLengths(cs) ==
    IF cs = {} THEN Zero
    ELSE LET c == CHOOSE x \in cs : TRUE
         IN  Add(LengthOf(nodes, elements[c]), SumLengths(cs \ {c}))

\* C5: when a call of autoConnectNodes has split an element, the next call,
\* on the output of that call, returns the same elements and the same loads.
C5_RepairIsIdempotent ==
    [][(Repaired /\ \E p \in Parents : WasSplit(p))
         => (elements' = elements /\ loads' = loads)]_vars

\* C6: after a call that split element p, every point or moment load of p
\* sits on exactly one sub-segment, one whose range contains the load's
\* location, with location (loc - prevT) / (currentT - prevT), and on no
\* other sub-segment of p.
C6_ConcentratedLoadOnOneSegment ==
    Repaired =>
        \A p \in Parents : WasSplit(p) =>
            LET rel == Concentrated(RelevantLoads(repairIn.loads, Parent(p)))
            IN  \A j \in 1..Len(rel) :
                  \E c \in Children(p) :
                    /\ Le(PrevT(c), LocationOf(rel[j]))
                    /\ Le(LocationOf(rel[j]), CurrentT(c))
                    /\ \A d \in Children(p) :
                         LET clones == SelectSeq(LoadsOn(d),
                                                 LAMBDA o : Kind(o) = Kind(rel[j]))
                         IN  IF d # c THEN clones = <<>>
                             ELSE /\ Len(clones) = 1
                                  /\ clones[1].location =
                                       Some(Div(Sub(LocationOf(rel[j]), PrevT(c)),
                                                Sub(CurrentT(c), PrevT(c))))

\* C7: after a call that split element p, each sub-segment of p carries the
\* distributed loads of p, each once, with type, magnitude and direction
\* unchanged, and every distributed element load of the output sits on an
\* output element whose input element carried a load of that kind.
C7_DistributedLoadOnEverySegment ==
    Repaired =>
        /\ \A p \in Parents : WasSplit(p) =>
             \A c \in Children(p) :
                KindsOf(Distributed(LoadsOn(c)))
                  = KindsOf(Distributed(RelevantLoads(repairIn.loads, Parent(p))))
        /\ \A o \in 1..Len(loads) :
             (loads[o].type = "distributed" /\ Truthy(loads[o].elementId)) =>
                \E c \in 1..Len(elements) :
                   /\ elements[c].id = loads[o].elementId[1]
                   /\ \E l \in 1..Len(repairIn.loads) :
                        /\ repairIn.loads[l].elementId = Some(Parent(origin[c]).id)
                        /\ Kind(repairIn.loads[l]) = Kind(loads[o])

\* C7 happens: an element that carries a distributed load was cut in three
C7_Witness ==
    /\ Repaired
    /\ \E p \in Parents :
         /\ Cardinality(Children(p)) >= 3
         /\ Distributed(RelevantLoads(repairIn.loads, Parent(p))) # <<>>
         /\ \A c \in Children(p) : Len(Distributed(LoadsOn(c))) = 1

\* what counts as the same length
LengthTol == Q(1, 1000)

\* C8: after a call that split element p, the lengths of the sub-segments of
\* p sum to the length of p.
C8_LengthPreserved ==
    Repaired =>
        \A p \in Parents : WasSplit(p) =>
            Within(Sub(SumLengths(Children(p)), LengthOf(repairIn.nodes, Parent(p))),
                   LengthTol)

\* C9: after a call that split element p, each sub-segment of p has E, A and
\* I of p, only the first one has p's releaseStart and only the last one p's
\* releaseEnd; every other sub-segment end is not released.
C9_SegmentsInheritSectionAndEndReleases ==
    Repaired =>
        \A p \in Parents : WasSplit(p) =>
            \A c \in Children(p) :
                /\ elements[c].E = Parent(p).E
                /\ elements[c].A = Parent(p).A
                /\ elements[c].I = Parent(p).I
                /\ elements[c].releaseStart = (c = FirstChild(p) /\ Parent(p).releaseStart)
                /\ elements[c].releaseEnd = (c = LastChild(p) /\ Parent(p).releaseEnd)

\* C9 happens: an element released at its start and one released at its end
\* were cut
C9_Witness ==
    /\ Repaired
    /\ \E p \in Parents : WasSplit(p) /\ Parent(p).releaseStart
                          /\ elements[FirstChild(p)].releaseStart
    /\ \E p \in Parents : WasSplit(p) /\ Parent(p).releaseEnd
                          /\ elements[LastChild(p)].releaseEnd

NodeLoadsOf(ls) == SelectSeq(ls, LAMBDA l : Truthy(l.nodeId))

\* C10: a call returns the node list it was given and every node load it
\* was given, id included, and every element that it did not split (one
\* without a node inside it, or with a missing end node) is returned as it
\* was, with its own loads as they were.
C10_RestIsUntouched ==
    Repaired =>
        /\ nodes = repairIn.nodes
        /\ NodeLoadsOf(loads) = NodeLoadsOf(repairIn.loads)
        /\ \A p \in Parents : ~WasSplit(p) =>
             /\ Children(p) # {}
             /\ elements[FirstChild(p)] = Parent(p)
             /\ LoadsOn(FirstChild(p)) = RelevantLoads(repairIn.loads, Parent(p))

\* C10 happens: a call split an element while a node load, an element that
\* has no node inside it and carries a load, or an element with a missing
\* end node and a load was there
C10_Witness ==
    /\ Repaired
    /\ \E p \in Parents : WasSplit(p)
    /\ \/ NodeLoadsOf(repairIn.loads) # <<>>
       \/ \E p \in Parents : ~WasSplit(p) /\ RelevantLoads(repairIn.loads, Parent(p)) # <<>>

-----------------------------------------------------------------------------
(* Claims about the elements that solveStructure skips (SpecSolve)         *)

\* a solve has happened
Solved == op = "solve" /\ solved # NoSolve

\* what solveStructure computed in the last solve: the assembled and the
\* reduced system, the displacements and the returned AnalysisResults
Computed(s) ==
    [K_global |-> s.K_global, F_global |-> s.F_global,
     K_reduced |-> s.K_reduced, F_reduced |-> s.F_reduced,
     U |-> s.U, result |-> s.result]

\* el names an end node that is not in the node list
MissesNode(el) ==
    FindNode(nodes, el.startNode) = Undefined \/ FindNode(nodes, el.endNode) = Undefined

\* the elements without those that satisfy Skip, and the loads without the
\* loads on those
ElementsWithout(Skip(_)) == SelectSeq(elements, LAMBDA el : ~Skip(el))

LoadsWithout(Skip(_)) ==
    SelectSeq(loads, LAMBDA l :
        ~(Truthy(l.elementId) /\ \E i \in 1..Len(elements) :
              elements[i].id = l.elementId[1] /\ Skip(elements[i])))

\* C11: the solve of a structure that has an element with a missing end
\* node computes the same stiffness matrix, load vector, displacements and
\* results (in which the element has no entry) as the solve of the structure
\* without that element and without the loads on it.
C11_MissingNodeElementIsOmitted ==
    (Solved /\ \E i \in 1..Len(elements) : MissesNode(elements[i])) =>
        /\ \A i \in 1..Len(solved.result.elements) :
              ~MissesNode(FindElement(elements, solved.result.elements[i].elementId)[1])
        /\ Computed(solved) =
              Computed(solveStructure(nodes, ElementsWithout(MissesNode),
                                      LoadsWithout(MissesNode), stiffnessType))

\* C11 happens: a structure was solved in which a member without its start
\* node, or without its end node, carries a load
C11_Witness ==
    /\ Solved
    /\ \E i \in 1..Len(elements) :
          /\ MissesNode(elements[i])
          /\ LoadsOfElement(loads, elements[i].id) # <<>>

\* el joins two nodes that lie at the same coordinates
IsZeroLength(el) ==
    /\ ~MissesNode(el)
    /\ FindNode(nodes, el.startNode)[1].x = FindNode(nodes, el.endNode)[1].x
    /\ FindNode(nodes, el.startNode)[1].y = FindNode(nodes, el.endNode)[1].y

\* the element results of s for the elements that have a length
ResultsOfOthers(s) ==
    SelectSeq(s.result.elements,
              LAMBDA r : ~IsZeroLength(FindElement(elements, r.elementId)[1]))

\* the solve s and the solve ref agree but for the results of the elements of
\* length zero
SameButZeroLength(s, ref) ==
    /\ s.K_global = ref.K_global
    /\ s.F_global = ref.F_global
    /\ s.U = ref.U
    /\ ResultsOfOthers(s) = ref.result.elements
    /\ s.result.reactions = ref.result.reactions
    /\ s.result.maxDeflection = ref.result.maxDeflection

\* C12: the solve of a structure that has an element of length zero
\* assembles a load vector without an undefined entry, and computes the same
\* stiffness matrix, load vector, displacements, reactions and results of the
\* other elements as the solve of the structure without that element and
\* without the loads on it.
C12_ZeroLengthElementContributesNothing ==
    (Solved /\ \E i \in 1..Len(elements) : IsZeroLength(elements[i])) =>
        /\ \A q \in DOMAIN solved.F_global : IsFinite(solved.F_global[q])
        /\ SameButZeroLength(solved,
                             solveStructure(nodes, ElementsWithout(IsZeroLength),
                                            LoadsWithout(IsZeroLength), stiffnessType))

-----------------------------------------------------------------------------
(* Claims about the application (SpecApp)                                  *)

\* C13: the loads of every call of solveStructure that the application
\* makes name a node that is among the nodes of that call, or an element that
\* is among the elements of that call.
C13_SolverReceivesOnlyValidLoads ==
    solved # NoSolve =>
        \A k \in 1..Len(solved.input[3]) :
            /\ solved.input[3][k].nodeId # Undefined =>
                  \E i \in 1..Len(solved.input[1]) :
                      solved.input[1][i].id = solved.input[3][k].nodeId[1]
            /\ solved.input[3][k].elementId # Undefined =>
                  \E i \in 1..Len(solved.input[2]) :
                      solved.input[2][i].id = solved.input[3][k].elementId[1]

-----------------------------------------------------------------------------
(* Claims about the reactions (SpecSolve)                                  *)

\* the nodes that have a restrained DOF, in node order
SupportNodes == SelectSeq(nodes, LAMBDA n : \E o \in 1..3 : n.restraints[o])

\* (K_global * U)[dof] - F_global[dof] of the last solve, cleaned, for the
\* DOF o (1..3) of node n when it is restrained, and 0 when it is not
ReactionComponent(n, o) ==
    IF n.restraints[o]
    THEN cleanValue(Sub(multiplyMatrixVector(solved.K_global, solved.U)
                            [nodeIndexMap(nodes, n.id) * 3 + o - 1],
                        solved.F_global[nodeIndexMap(nodes, n.id) * 3 + o - 1]))
    ELSE Zero

\* C14: the reactions of a solve are one entry for every node that has a
\* restrained DOF and for no other node, in node order; a restrained
\* component is the cleaned (K_global * U)[dof] - F_global[dof] of the
\* unreduced system, and the component of an unrestrained DOF is 0.
C14_ReactionsOfRestrainedNodes ==
    Solved =>
        /\ Len(solved.result.reactions) = Len(SupportNodes)
        /\ \A i \in 1..Len(SupportNodes) :
              solved.result.reactions[i] =
                  [nodeId |-> SupportNodes[i].id,
                   fx |-> ReactionComponent(SupportNodes[i], 1),
                   fy |-> ReactionComponent(SupportNodes[i], 2),
                   m  |-> ReactionComponent(SupportNodes[i], 3)]

\* C14 happens: a structure with a free node and a support that is
\* restrained in part was solved, and a reaction is not zero
C14_Witness ==
    /\ Solved
    /\ Len(SupportNodes) < Len(nodes)
    /\ \E i \in 1..Len(SupportNodes) : \E o \in 1..3 : ~SupportNodes[i].restraints[o]
    /\ \E i \in 1..Len(solved.result.reactions) :
          IsFinite(solved.result.reactions[i].fy) /\ solved.result.reactions[i].fy # Zero

-----------------------------------------------------------------------------
(* Claims about the closed-form solutions (SpecSolve)                      *)

\* the structure is one member without end releases between a pin and a
\* roller on a horizontal line
SimplySupported ==
    /\ Len(nodes) = 2
    /\ Len(elements) = 1
    /\ {nodes[1].restraints, nodes[2].restraints} = {Pin, Roller}
    /\ nodes[1].y = nodes[2].y
    /\ {elements[1].startNode, elements[1].endNode} = {nodes[1].id, nodes[2].id}
    /\ ~elements[1].releaseStart
    /\ ~elements[1].releaseEnd

\* the only load is a uniform transverse load on the only member
UniformlyLoaded ==
    /\ Len(loads) = 1
    /\ loads[1].type = "distributed"
    /\ loads[1].elementId = Some(elements[1].id)
    /\ DirectionOf(loads[1]) = "y"

\* the length of the only member
SpanLength == Abs(Sub(nodes[2].x, nodes[1].x))

\* the stations of the only member at mid-span
MidSpanStations ==
    SelectSeq(solved.result.elements[1].stations,
              LAMBDA p : p.x = Div(SpanLength, R(2)))

\* E * I of the only member in kN.m2, E and I converted as the solver
\* converts them
FlexuralRigidity ==
    Mul(Mul(elements[1].E, R(1000000)), Div(elements[1].I, R(1000000)))

\* C15: the moment that the solve of a simply supported beam under a
\* uniform load w reports at the mid-span station has the magnitude
\* w * L^2 / 8.
C15_MidSpanMoment ==
    (Solved /\ SimplySupported /\ UniformlyLoaded) =>
        /\ MidSpanStations # <<>>
        /\ \A k \in 1..Len(MidSpanStations) :
              Abs(MidSpanStations[k].moment) =
                  Div(Mul(Abs(loads[1].magnitude), Mul(SpanLength, SpanLength)), R(8))

\* C15 happens: a simply supported beam under a uniform load was solved
C15_Witness ==
    /\ Solved
    /\ SimplySupported
    /\ UniformlyLoaded
    /\ stiffnessType = "Elastic"
    /\ Len(solved.result.elements) = 1

\* the tolerance, in mm, within which a reported deflection equals its
\* closed form
DeflectionTol == Q(1, 100)

\* C16: the deflection that the elastic solve of a simply supported beam
\* under a uniform load w reports at mid-span is, in mm, that of
\* 5 * w * L^4 / (384 * E * I), the beam being modelled as one element.
C16_MidSpanDeflection ==
    (Solved /\ SimplySupported /\ UniformlyLoaded /\ stiffnessType = "Elastic") =>
        /\ MidSpanStations # <<>>
        /\ \A k \in 1..Len(MidSpanStations) :
              Within(Sub(Abs(MidSpanStations[k].deflectionY),
                         Mul(R(1000),
                             Div(Mul(Mul(R(5), Abs(loads[1].magnitude)),
                                     Mul(Mul(SpanLength, SpanLength),
                                         Mul(SpanLength, SpanLength))),
                                 Mul(R(384), FlexuralRigidity)))),
                     DeflectionTol)

\* the structure is one member without end releases, along a global axis,
\* from a fully fixed node to a free node
IsCantilever ==
    /\ Len(nodes) = 2
    /\ Len(elements) = 1
    /\ nodes[1].restraints = Fixed
    /\ nodes[2].restraints = Free
    /\ elements[1].startNode = nodes[1].id
    /\ elements[1].endNode = nodes[2].id
    /\ ~elements[1].releaseStart
    /\ ~elements[1].releaseEnd
    /\ nodes[1].x = nodes[2].x \/ nodes[1].y = nodes[2].y

\* the only load is a point load on the free node, across the member
TipLoaded ==
    /\ Len(loads) = 1
    /\ loads[1].type = "point"
    /\ loads[1].nodeId = Some(nodes[2].id)
    /\ DirectionOf(loads[1]) = (IF nodes[1].y = nodes[2].y THEN "y" ELSE "x")

\* the length of the cantilever
CantileverLength ==
    Add(Abs(Sub(nodes[2].x, nodes[1].x)), Abs(Sub(nodes[2].y, nodes[1].y)))

\* P * L^3 / (3 * E * I) in m
TipDeflection ==
    Div(Mul(Abs(loads[1].magnitude),
            Mul(CantileverLength, Mul(CantileverLength, CantileverLength))),
        Mul(R(3), FlexuralRigidity))

\* C17: the solve of a cantilever under a transverse point load P at its
\* free end computes a transverse tip displacement of P * L^3 / (3 * E * I),
\* and reports that deflection, in mm, at the station of the free end.
C17_CantileverTipDeflection ==
    (Solved /\ IsCantilever /\ TipLoaded /\ stiffnessType # "Rigid") =>
        /\ Len(solved.result.elements) = 1
        /\ Within(Sub(Abs(solved.result.elements[1].u_local[4]), TipDeflection),
                  Div(DeflectionTol, R(1000)))
        /\ \E k \in 1..Len(solved.result.elements[1].stations) :
              solved.result.elements[1].stations[k].x = CantileverLength
        /\ \A k \in 1..Len(solved.result.elements[1].stations) :
              solved.result.elements[1].stations[k].x = CantileverLength =>
                  Within(Sub(Abs(solved.result.elements[1].stations[k].deflectionY),
                             Mul(R(1000), TipDeflection)),
                         DeflectionTol)

\* C17 happens: a horizontal cantilever under a vertical tip load was
\* solved, and its tip has moved
C17_Witness ==
    /\ Solved
    /\ IsCantilever
    /\ TipLoaded
    /\ nodes[1].y = nodes[2].y
    /\ stiffnessType = "Elastic"
    /\ solved.result.elements[1].u_local[4] # Zero

-----------------------------------------------------------------------------
(* Claims about solveLinearSystem (SpecLinear)                             *)

\* the order of the system of the last call
Order == Cardinality(DOMAIN linear.b)

\* the matrix that the elimination loop leaves
Eliminated == linear.steps[Order].after

\* the iteration of column i found a pivot of magnitude below 1e-10
ZeroPivotAt(i) == PivotIsZero(linear.steps[i + 1].pivoted[i][i])

\* C19: in a call of solveLinearSystem, an iteration whose pivot has a
\* magnitude below 1e-10 alters row i alone (the diagonal becomes 1, the
\* right-hand side and the entries right of the diagonal become 0) and the
\* solution has x[i] = 0; every other iteration divides by a pivot, and the
\* back-substitution by a diagonal entry, of magnitude at least 1e-10 or
\* NaN.
C19_ZeroPivotLocksTheUnknown ==
    op = "solveLinear" =>
        \A i \in 0..(Order - 1) :
            /\ ZeroPivotAt(i) =>
                  /\ \A r \in 0..(Order - 1) :
                        r # i => linear.steps[i + 1].after[r] = linear.steps[i + 1].pivoted[r]
                  /\ \A j \in 0..Order :
                        linear.steps[i + 1].after[i][j] =
                            (IF j = i THEN One
                             ELSE IF j > i THEN Zero
                             ELSE linear.steps[i + 1].pivoted[i][j])
                  /\ linear.x[i] = Zero
            /\ ~ZeroPivotAt(i) => ~PivotIsZero(linear.steps[i + 1].after[i][i])
            /\ ~PivotIsZero(Eliminated[i][i])

-----------------------------------------------------------------------------
(* Claims about the numeric cleanup (SpecSolve)                            *)

\* the element of the element result r, and its geometry
ElementOf(r) == FindElement(elements, r.elementId)[1]

StartNodeOf(r) == FindNode(nodes, ElementOf(r).startNode)[1]

GeometryOf(r) == Geometry(StartNodeOf(r), FindNode(nodes, ElementOf(r).endNode)[1])

\* the forces at the start of the element of r before they are cleaned
UnsnappedStartForces(r) ==
    LET F_total == TotalForces(ElementOf(r), stiffnessType, GeometryOf(r), r.u_local,
                               LoadsOfElement(loads, r.elementId))
    IN  [fx |-> F_total[0], fy |-> F_total[1], m |-> F_total[2]]

\* the values at the station x of r that the unsnapped start forces give
FromUnsnappedForces(r, x) ==
    calculateExactValues(x, GeometryOf(r).L, GeometryOf(r).c, GeometryOf(r).s, r.u_local,
                         UnsnappedStartForces(r), LoadsOfElement(loads, r.elementId))

\* the deflection, in m, at the station x of r before it is cleaned
UnsnappedDeflection(r, x) ==
    DeflectionAt(XiOf(ClampStation(x, GeometryOf(r).L), GeometryOf(r).L),
                 GeometryOf(r).L, r.u_local)

\* the station p of r has the axial force, shear and moment that the
\* unsnapped start forces give, and the global coordinates that the unsnapped
\* deflection gives
FromUnsnapped(r, p) ==
    /\ p.axial = FromUnsnappedForces(r, p.x).axial
    /\ p.shear = FromUnsnappedForces(r, p.x).shear
    /\ p.moment = FromUnsnappedForces(r, p.x).moment
    /\ p.globalX = Sub(Add(StartNodeOf(r).x, Mul(p.x, GeometryOf(r).c)),
                       Mul(UnsnappedDeflection(r, p.x), GeometryOf(r).s))
    /\ p.globalY = Add(Add(StartNodeOf(r).y, Mul(p.x, GeometryOf(r).s)),
                       Mul(UnsnappedDeflection(r, p.x), GeometryOf(r).c))

\* C20: no cleaned value enters a later computation of a solve: the axial
\* force, shear and moment of every station are computed from the unsnapped
\* end forces of its element, and its global coordinates from the unsnapped
\* deflection.
C20_CleanedValuesAreFinal ==
    Solved =>
        \A e \in 1..Len(solved.result.elements) :
            \A k \in 1..Len(solved.result.elements[e].stations) :
                FromUnsnapped(solved.result.elements[e],
                              solved.result.elements[e].stations[k])

-----------------------------------------------------------------------------
(* Claims about cleanValue (SpecClean)                                     *)

\* the argument and the result of the call
CleanedVal == cleaned.val

CleanedOut == cleaned.out[1]

\* the integers k, and the half-integers k + 1/2, that lie within less than
\* 0.02 of v
IntegersNear(v) == { k \in -4..4 : Lt(Abs(Sub(v, R(k))), Q(2, 100)) }

HalfIntegersNear(v) == { k \in -4..4 : Lt(Abs(Sub(v, Q(2 * k + 1, 2))), Q(2, 100)) }

\* w is v rounded to 4 decimal digits
IsRoundedTo4(w, v) ==
    /\ IsFinite(w)
    /\ 10000 % w.d = 0
    /\ Le(Abs(Sub(w, v)), Q(5, 100000))

\* C21: cleanValue(v) is 0 when |v| < 1e-4; otherwise the integer within
\* 0.02 of v when there is one; otherwise the half-integer within 0.02 of v
\* when there is one; otherwise v rounded to 4 decimal digits (a value
\* that is not finite stays as it is).
C21_CleanValueSnaps ==
    op = "cleanValue" =>
        IF ~IsFinite(CleanedVal) THEN CleanedOut = CleanedVal
        ELSE IF LtTenTo(Abs(CleanedVal), 4) THEN CleanedOut = Zero
        ELSE IF IntegersNear(CleanedVal) # {}
             THEN \E k \in IntegersNear(CleanedVal) : CleanedOut = R(k)
        ELSE IF HalfIntegersNear(CleanedVal) # {}
             THEN \E k \in HalfIntegersNear(CleanedVal) : CleanedOut = Q(2 * k + 1, 2)
        ELSE IsRoundedTo4(CleanedOut, CleanedVal)

-----------------------------------------------------------------------------
(* Claims about the fixed-end actions (SpecSolve)                          *)

\* the elements of the structure that join two nodes at a distance, and the
\* geometry of such an element
Members == { i \in 1..Len(elements) : ~MissesNode(elements[i]) /\ ~IsZeroLength(elements[i]) }

GeometryOfMember(i) ==
    Geometry(FindNode(nodes, elements[i].startNode)[1],
             FindNode(nodes, elements[i].endNode)[1])

\* the fixed-end actions of load l on member i as the load loop computes
\* them, and those of the member with both ends fixed
ActionsOf(i, l) ==
    FixedEndActions(l, elements[i], GeometryOfMember(i).L, GeometryOfMember(i).c,
                    GeometryOfMember(i).s)

FixedFixedOfMember(i, l) ==
    FixedFixedActions(l, GeometryOfMember(i).L, GeometryOfMember(i).c, GeometryOfMember(i).s)

\* the sum of the end shears, and the moment of the end actions about the
\* start of a member of length L
ShearSum(f) == Add(f.v1, f.v2)

MomentAboutStart(f, L) == Add(Add(f.m1, f.m2), Mul(f.v2, L))

\* the members with exactly one end released that carry load k
OneEndReleasedUnder(k) ==
    { i \in Members : /\ elements[i].releaseStart # elements[i].releaseEnd
                      /\ loads[k].elementId = Some(elements[i].id) }

\* C22: the fixed-end actions of a load on an element with exactly one end
\* released have no moment at the released end, and the sum of their end
\* shears and their moment about the start of the element are those of the
\* fixed-fixed actions of the load.
C22_OneReleaseKeepsEquilibrium ==
    Solved =>
        \A k \in 1..Len(loads) : \A i \in OneEndReleasedUnder(k) :
            /\ elements[i].releaseStart => ActionsOf(i, loads[k]).m1 = Zero
            /\ elements[i].releaseEnd => ActionsOf(i, loads[k]).m2 = Zero
            /\ ShearSum(ActionsOf(i, loads[k])) = ShearSum(FixedFixedOfMember(i, loads[k]))
            /\ MomentAboutStart(ActionsOf(i, loads[k]), GeometryOfMember(i).L)
                  = MomentAboutStart(FixedFixedOfMember(i, loads[k]), GeometryOfMember(i).L)

-----------------------------------------------------------------------------
(* Claims about the assembled and the reduced system (SpecSolve)           *)

\* the degrees of freedom of the structure
Dofs == DOMAIN solved.K_global

\* C23: the global stiffness matrix that solveStructure assembles is
\* symmetric before the boundary conditions are applied: K[i][j] = K[j][i]
\* for every pair of degrees of freedom.
C23_StiffnessIsSymmetric ==
    Solved => \A i, j \in Dofs : solved.K_global[i][j] = solved.K_global[j][i]

\* a member released at exactly one end has been assembled into a matrix
\* that couples a translation of one of its ends with a rotation of the other
C23_Witness ==
    /\ Solved
    /\ \E e \in Members : elements[e].releaseStart # elements[e].releaseEnd
    /\ \E i, j \in Dofs : i \div 3 # j \div 3 /\ i % 3 = 1 /\ j % 3 = 2
                           /\ solved.K_global[i][j] # Zero

\* DOF k belongs to a restrained direction of the node it is a DOF of
RestrainedDof(k) == nodes[(k \div 3) + 1].restraints[(k % 3) + 1]

\* C24: the reduction changes only what belongs to restrained DOFs: row and
\* column k of the reduced matrix are zero except for a 1 on the diagonal
\* and the reduced load is 0 for every restrained DOF k, the entries of
\* unrestrained DOFs are those of the assembled system, the dimension is
\* unchanged, and the assembled matrix and vector are still what the
\* assembly produced.
C24_ReductionTouchesRestrainedOnly ==
    Solved =>
        /\ DOMAIN solved.K_reduced = Dofs /\ DOMAIN solved.F_reduced = DOMAIN solved.F_global
        /\ Dofs = 0..(3 * Len(nodes) - 1) /\ DOMAIN solved.F_global = Dofs
        /\ \A k \in Dofs : DOMAIN solved.K_reduced[k] = Dofs
        /\ \A k \in Dofs : RestrainedDof(k) =>
              /\ \A j \in Dofs \ {k} : /\ solved.K_reduced[k][j] = Zero
                                        /\ solved.K_reduced[j][k] = Zero
              /\ solved.K_reduced[k][k] = One
              /\ solved.F_reduced[k] = Zero
        /\ \A i, j \in Dofs : ~RestrainedDof(i) /\ ~RestrainedDof(j) =>
              solved.K_reduced[i][j] = solved.K_global[i][j]
        /\ \A i \in Dofs : ~RestrainedDof(i) => solved.F_reduced[i] = solved.F_global[i]
        /\ solved.K_global = AssembleStiffness(nodes, elements, stiffnessType)
        /\ solved.F_global = AssembleLoads(nodes, elements, loads)

\* the reduction has cleared a non-zero coupling between a restrained and
\* an unrestrained DOF and a non-zero load on a restrained DOF, and has
\* kept a non-zero coupling between two unrestrained DOFs
C24_Witness ==
    /\ Solved
    /\ \E k, j \in Dofs : /\ RestrainedDof(k) /\ ~RestrainedDof(j)
                           /\ solved.K_global[j][k] # Zero /\ solved.K_reduced[j][k] = Zero
    /\ \E k \in Dofs : RestrainedDof(k) /\ solved.F_global[k] # Zero
    /\ \E i, j \in Dofs : /\ i # j /\ ~RestrainedDof(i) /\ ~RestrainedDof(j)
                           /\ solved.K_reduced[i][j] # Zero

-----------------------------------------------------------------------------
(* Claims about the post-processing pass (SpecSolve)                       *)

\* the elements whose end nodes both exist: those that the load loop and the
\* post-processing pass compute fixed-end actions for
Connected == { i \in 1..Len(elements) : ~MissesNode(elements[i]) }

\* the loads on element i
LoadsOnElement(i) == { k \in 1..Len(loads) : loads[k].elementId = Some(elements[i].id) }

\* the fixed-end actions of load l on element i as the post-processing pass
\* recomputes them, as a record
PostActionsOf(i, l) ==
    LET Named(f) == [fx1 |-> f[1], v1 |-> f[2], m1 |-> f[3],
                     fx2 |-> f[4], v2 |-> f[5], m2 |-> f[6]]
    IN  Named(FixedEndActionsPost(l, elements[i], GeometryOfMember(i).L,
                                  GeometryOfMember(i).c, GeometryOfMember(i).s))

\* C25: the post-processing pass and the assembly agree: for every element
\* that is assembled the local stiffness matrix rebuilt in the
\* post-processing pass is the one that was assembled into the global
\* stiffness matrix, and for every load on an element the fixed-end actions
\* recomputed in the post-processing pass are those that were assembled
\* into the global load vector.
C25_PostProcessingAgreesWithAssembly ==
    Solved =>
        /\ \A i \in Members :
              LocalStiffnessPost(elements[i], GeometryOfMember(i).L, stiffnessType)
                 = LocalStiffness(elements[i], GeometryOfMember(i).L, stiffnessType)
        /\ \A i \in Connected : \A k \in LoadsOnElement(i) :
              PostActionsOf(i, loads[k]) = ActionsOf(i, loads[k])

\* a member released at one end, solved in a mode that scales its
\* stiffness or under a load with fixed-end shears and a fixed-end moment
C25_Witness ==
    /\ Solved
    /\ \E i \in Members :
          /\ elements[i].releaseStart # elements[i].releaseEnd
          /\ \E k \in LoadsOnElement(i) : /\ PostActionsOf(i, loads[k]).v1 # Zero
                                    /\ PostActionsOf(i, loads[k]).m1 # Zero

-----------------------------------------------------------------------------
(* Claims about the plot stations (SpecPlot)                               *)

\* the stations of a member have been plotted
Plotted == op = "plot"

\* the load on the plotted member, its position loc along the member and its
\* components along and across the member
PlottedLoad == plotted.elLoads[1]

PlottedLoc == Mul(LocationOf(PlottedLoad), plotted.g.L)

AlongMember ==
    IF PlottedLoad.type = "moment" THEN Zero
    ELSE IF DirectionOf(PlottedLoad) = "x" THEN Mul(PlottedLoad.magnitude, plotted.g.c)
    ELSE Mul(PlottedLoad.magnitude, plotted.g.s)

AcrossMember ==
    IF PlottedLoad.type = "moment" THEN Zero
    ELSE IF DirectionOf(PlottedLoad) = "x" THEN Mul(PlottedLoad.magnitude, Neg(plotted.g.s))
    ELSE Mul(PlottedLoad.magnitude, plotted.g.c)

\* axial force, shear and moment at x from the start forces alone
BeforeLoad(x) ==
    [axial |-> Neg(plotted.startForces.fx),
     shear |-> plotted.startForces.fy,
     moment |-> Add(Neg(plotted.startForces.m), Mul(plotted.startForces.fy, x))]

\* the same with the full step of the point load or moment at PlottedLoc
AfterLoad(x) ==
    IF PlottedLoad.type = "point"
    THEN [axial |-> Sub(BeforeLoad(x).axial, AlongMember),
          shear |-> Add(BeforeLoad(x).shear, AcrossMember),
          moment |-> Add(BeforeLoad(x).moment, Mul(AcrossMember, Sub(x, PlottedLoc)))]
    ELSE [BeforeLoad(x) EXCEPT !.moment = Sub(BeforeLoad(x).moment, PlottedLoad.magnitude)]

\* the same with a distributed load from the start of the member up to x
UnderDistributed(x) ==
    [axial |-> Sub(BeforeLoad(x).axial, Mul(AlongMember, x)),
     shear |-> Add(BeforeLoad(x).shear, Mul(AcrossMember, x)),
     moment |-> Add(BeforeLoad(x).moment, Div(Mul(Mul(AcrossMember, x), x), R(2)))]

\* station k reports the values v, evaluated at the position that the
\* station is clamped to
Reports(k, v(_)) ==
    LET Shown(w) == /\ plotted.stations[k].axial = cleanValue(w.axial)
                    /\ plotted.stations[k].shear = cleanValue(w.shear)
                    /\ plotted.stations[k].moment = cleanValue(w.moment)
    IN  Shown(v(ClampStation(plotted.stations[k].x, plotted.g.L)))

\* x > loc + 1e-6
BeyondLoad(x) == Gt(x, Add(PlottedLoc, Q(1, 1000000)))

\* C26: a point load or moment at loc contributes to axial force, shear and
\* moment only at the stations x > loc + 1e-6, and there with its full step,
\* so that the station x = loc reports the values before the load and the
\* station loc + 0.001 those after it; a distributed load contributes at
\* every station in proportion to x (axial force, shear) and to x^2 / 2
\* (moment).
C26_StepBeyondTheLoad ==
    Plotted =>
        \A k \in 1..Len(plotted.stations) :
            IF PlottedLoad.type = "distributed" THEN Reports(k, UnderDistributed)
            ELSE IF BeyondLoad(plotted.stations[k].x) THEN Reports(k, AfterLoad)
            ELSE Reports(k, BeforeLoad)

\* the positions of the plotted stations, in the order of the list
StationX == [k \in 1..Len(plotted.stations) |-> plotted.stations[k].x]

\* x is the position of some station
IsStation(x) == \E k \in 1..Len(StationX) : StationX[k] = x

\* the loads of the plotted member that are point loads or moments placed
\* strictly inside it
InnerLoads ==
    { k \in 1..Len(plotted.elLoads) :
        /\ plotted.elLoads[k].type \in {"point", "moment"}
        /\ Gt(Mul(LocationOf(plotted.elLoads[k]), plotted.g.L), Zero)
        /\ Lt(Mul(LocationOf(plotted.elLoads[k]), plotted.g.L), plotted.g.L) }

\* C27: the station list of an element result is strictly ascending in x
\* (so without duplicates), starts at 0 and ends at L, contains every grid
\* point i * L / 100 for i = 0..100 and, for every point load or moment
\* placed strictly inside the member, its location loc, max(0, loc - 0.001)
\* and min(L, loc + 0.001), and every station lies in [0, L].
C27_StationsAreOrderedAndComplete ==
    Plotted =>
        /\ \A k \in 1..(Len(StationX) - 1) : Lt(StationX[k], StationX[k + 1])
        /\ StationX[1] = Zero
        /\ StationX[Len(StationX)] = plotted.g.L
        /\ \A i \in 0..100 : IsStation(Div(Mul(R(i), plotted.g.L), R(100)))
        /\ \A k \in InnerLoads :
              LET loc == Mul(LocationOf(plotted.elLoads[k]), plotted.g.L)
              IN  /\ IsStation(loc)
                  /\ IsStation(MaxR(Zero, Sub(loc, Q(1, 1000))))
                  /\ IsStation(MinR(plotted.g.L, Add(loc, Q(1, 1000))))
        /\ \A k \in 1..Len(StationX) : Ge(StationX[k], Zero) /\ Le(StationX[k], plotted.g.L)

\* a point load or moment less than 0.001 from the start of the member but
\* not on it: its location is a station between 0 and the first grid point
\* and the offset before it is clamped to 0
C27_Witness ==
    /\ Plotted
    /\ \E k \in InnerLoads : Lt(Mul(LocationOf(plotted.elLoads[k]), plotted.g.L), Q(1, 1000))
    /\ Len(StationX) = 103
    /\ Gt(StationX[2], Zero) /\ Lt(StationX[2], Q(1, 1000))

-----------------------------------------------------------------------------
(* Claims about the chain of sub-segments (SpecRepair)                     *)

\* the end nodes of input element p, when both exist
HasEnds(p) == ~(FindNode(repairIn.nodes, Parent(p).startNode) = Undefined
                \/ FindNode(repairIn.nodes, Parent(p).endNode) = Undefined)

StartOf(p) == FindNode(repairIn.nodes, Parent(p).startNode)[1]

EndOf(p) == FindNode(repairIn.nodes, Parent(p).endNode)[1]

\* the projection parameter of node n on the segment of p, and the square
\* of the distance of n from the line through the segment
ProjectionOn(p, n) ==
    Div(Add(Mul(Sub(n.x, StartOf(p).x), Sub(EndOf(p).x, StartOf(p).x)),
            Mul(Sub(n.y, StartOf(p).y), Sub(EndOf(p).y, StartOf(p).y))),
        Add(Mul(Sub(EndOf(p).x, StartOf(p).x), Sub(EndOf(p).x, StartOf(p).x)),
            Mul(Sub(EndOf(p).y, StartOf(p).y), Sub(EndOf(p).y, StartOf(p).y))))

OffLineSquared(p, n) ==
    LET Squared(cross, len_sq) == Div(Mul(cross, cross), len_sq)
    IN  Squared(Sub(Mul(Sub(n.x, StartOf(p).x), Sub(EndOf(p).y, StartOf(p).y)),
                    Mul(Sub(n.y, StartOf(p).y), Sub(EndOf(p).x, StartOf(p).x))),
                Add(Mul(Sub(EndOf(p).x, StartOf(p).x), Sub(EndOf(p).x, StartOf(p).x)),
                    Mul(Sub(EndOf(p).y, StartOf(p).y), Sub(EndOf(p).y, StartOf(p).y))))

\* the nodes, other than its end nodes, that lie less than 0.05 from the
\* segment of p at a parameter strictly between 0.01 and 0.99
NodesInside(p) ==
    { i \in 1..Len(repairIn.nodes) :
        /\ repairIn.nodes[i].id # StartOf(p).id
        /\ repairIn.nodes[i].id # EndOf(p).id
        /\ Gt(ProjectionOn(p, repairIn.nodes[i]), Q(1, 100))
        /\ Lt(ProjectionOn(p, repairIn.nodes[i]), Q(99, 100))
        /\ Lt(OffLineSquared(p, repairIn.nodes[i]), Q(25, 10000)) }

\* C28: a call of autoConnectNodes splits an element exactly when some node
\* other than its end nodes lies less than 0.05 from its segment at a
\* projection parameter strictly between 0.01 and 0.99; with k such nodes
\* the element is replaced by k + 1 sub-segments that form a chain through
\* these nodes in ascending order of the parameter: the first starts at the
\* element's start node, the last ends at its end node, and each ends where
\* the next one starts.
C28_SplitIntoChain ==
    Repaired =>
        \A p \in Parents :
            /\ WasSplit(p) <=> (HasEnds(p) /\ NodesInside(p) # {})
            /\ WasSplit(p) =>
                 /\ Cardinality(Children(p)) = Cardinality(NodesInside(p)) + 1
                 /\ Children(p) = FirstChild(p)..LastChild(p)
                 /\ elements[FirstChild(p)].startNode = Parent(p).startNode
                 /\ elements[LastChild(p)].endNode = Parent(p).endNode
                 /\ \A c \in Children(p) \ {LastChild(p)} :
                      /\ elements[c].endNode = elements[c + 1].startNode
                      /\ \E i \in NodesInside(p) : repairIn.nodes[i].id = elements[c].endNode
                 /\ \A c, d \in Children(p) \ {LastChild(p)} : c < d =>
                      Lt(ProjectionOn(p, FindNode(repairIn.nodes, elements[c].endNode)[1]),
                         ProjectionOn(p, FindNode(repairIn.nodes, elements[d].endNode)[1]))

\* an element was cut in three at two nodes inside it that are not in the
\* order of the node list, while another element was left whole
C28_Witness ==
    /\ Repaired
    /\ \E p \in Parents :
          /\ Cardinality(Children(p)) = 3
          /\ \E i, j \in NodesInside(p) :
                /\ i < j
                /\ Lt(ProjectionOn(p, repairIn.nodes[j]), ProjectionOn(p, repairIn.nodes[i]))
    /\ \E p \in Parents : HasEnds(p) /\ ~WasSplit(p)

-----------------------------------------------------------------------------
(* Claims about the ids under editing (SpecEdit)                           *)

\* the ids of the nodes or elements xs are pairwise distinct
DistinctIds(xs) == \A i, j \in 1..Len(xs) : i # j => xs[i].id # xs[j].id

\* the sub-segments that the last repair has created
SubSegments == { c \in 1..Len(elements) : WasSplit(origin[c]) }

\* C29: under addNode, removeNode, addElement, removeElement and
\* handleAutoConnect, from a geometry with unique ids, the ids of the nodes
\* are pairwise distinct and so are the ids of the elements; a sub-segment
\* that autoConnectNodes has created has an id greater than the id of every
\* input element and different from the id of every other output element
C29_IdsStayDistinct ==
    /\ DistinctIds(nodes)
    /\ DistinctIds(elements)
    /\ Repaired =>
          \A c \in SubSegments :
              /\ \A p \in Parents : elements[c].id > repairIn.elements[p].id
              /\ \A d \in 1..Len(elements) : d # c => elements[d].id # elements[c].id

\* a repair has split one element and kept another one, whose id is greater
\* than the id of the element that was split
C29_Witness ==
    /\ Repaired
    /\ hooks.phase = "render"
    /\ \E p, q \in Parents :
          /\ WasSplit(p)
          /\ ~WasSplit(q)
          /\ repairIn.elements[q].id > repairIn.elements[p].id

-----------------------------------------------------------------------------
(* Claims about the references under editing (SpecApp)                     *)

\* the ids of the nodes or elements xs
IdsOf(xs) == { xs[i].id : i \in 1..Len(xs) }

\* every element of es references two nodes of ns, and every load of ls
\* targets a node of ns or an element of es
Intact(ns, es, ls) ==
    /\ \A i \in 1..Len(es) : es[i].startNode \in IdsOf(ns) /\ es[i].endNode \in IdsOf(ns)
    /\ \A k \in 1..Len(ls) :
          \/ ls[k].nodeId # Undefined /\ ls[k].nodeId[1] \in IdsOf(ns)
          \/ ls[k].elementId # Undefined /\ ls[k].elementId[1] \in IdsOf(es)

\* the elements of es that are attached to the node id
AttachedTo(es, id) == { es[i].id : i \in { j \in 1..Len(es) :
                                              es[j].startNode = id \/ es[j].endNode = id } }

\* the load l is on the node id or on an element of the set gone
LoadOn(l, id, gone) ==
    \/ l.nodeId = Some(id)
    \/ l.elementId # Undefined /\ l.elementId[1] \in gone

\* C30: removeNode and removeElement keep the references intact: from a
\* state where every element references existing nodes and every load
\* targets an existing node or element they lead to such a state; removeNode
\* removes the node, the elements attached to it and the loads on the node
\* and on those elements, and nothing else; removeElement removes the
\* element and the loads on it, and nothing else
C30_RemovalKeepsReferences ==
    [][ (Intact(nodes, elements, loads) /\ op' \in {"removeNode", "removeElement"}) =>
          /\ Intact(nodes', elements', loads')
          /\ op' = "removeNode" =>
                \E id \in IdsOf(nodes) :
                    /\ nodes' = SelectSeq(nodes, LAMBDA n : n.id # id)
                    /\ elements' = SelectSeq(elements,
                                             LAMBDA e : e.id \notin AttachedTo(elements, id))
                    /\ loads' = SelectSeq(loads, LAMBDA l :
                                              ~LoadOn(l, id, AttachedTo(elements, id)))
          /\ op' = "removeElement" =>
                \E id \in IdsOf(elements) :
                    /\ nodes' = nodes
                    /\ elements' = SelectSeq(elements, LAMBDA e : e.id # id)
                    /\ loads' = SelectSeq(loads, LAMBDA l : ~LoadOn(l, 0, {id})) ]_vars

\* a node has been removed from the structure that was solved with two
\* loads: the load on an element attached to the node has gone with the
\* element, and the other load has stayed
C30_Witness ==
    /\ op = "removeNode"
    /\ solved # NoSolve
    /\ Intact(solved.input[1], solved.input[2], solved.input[3])
    /\ Len(solved.input[3]) = 2
    /\ Len(loads) = 1
    /\ Len(elements) < Len(solved.input[2])
    /\ \E k \in 1..2 :
          /\ solved.input[3][k].elementId # Undefined
          /\ solved.input[3][k].elementId[1] \notin IdsOf(elements)
    /\ Intact(nodes, elements, loads)


=============================================================================
